---- MODULE Spec2Model ----
(***************************************************************************)
(* Model of mvp_ai/gemini_client.py: the GeminiClient retry / credential   *)
(* rotation layer (_make_request_with_retry, _handle_error,                *)
(* _switch_api_key) and the three public operations that run through it    *)
(* (generate_text, generate_image, analyze_image_with_prompt with its      *)
(* two-phase upload), the construction of the client from the environment  *)
(* (_load_api_keys), the saving of generated images and _get_mime_type;    *)
(* and of the collaborators that call the client and turn its failures     *)
(* into fallback values: generate_culture_details, generate_cultural_note  *)
(* (gemini_notes.py), generate_pattern_image with its cache of culture     *)
(* details (imagegen_gemini.py) and the image-analysis generators of       *)
(* AICultureGenerator (ai_culture_generator.py).                           *)
(*                                                                         *)
(* Error messages are strings; classification is the substring test of     *)
(* _handle_error on the lower-cased message.                               *)
(***************************************************************************)
EXTENDS Integers, Sequences, FiniteSets, TLC

VARIABLES
    api_keys,           \* self.api_keys: the credential pool (a sequence)
    current_key_index,  \* self.current_key_index
    max_retries,        \* self.max_retries
    retry_delay_429,    \* self.retry_delay_429 (ms)
    retry_delay_503,    \* self.retry_delay_503 (ms)
    retry_delay_500,    \* self.retry_delay_500 (ms)
    environ,            \* os.environ: the GEMINI_API_KEY* variables that are set
    client,             \* whether GeminiClient() has run, and how it ended
    faults,             \* the failures the transport is subject to
    responses,          \* the texts the service answers with
    frame,              \* per caller: the activation of _make_request_with_retry
    obs,                \* per caller: what an observer of the call has seen
    details_cache,      \* generate_pattern_image._dynamic_culture_details_cache
    caller,             \* per caller: the activation of a collaborator function
    lookups             \* per culture key: generate_culture_details calls made
                        \* by generate_pattern_image

vars == <<api_keys, current_key_index, max_retries, retry_delay_429,
          retry_delay_503, retry_delay_500, environ, client, faults, responses,
          frame, obs, details_cache, caller, lookups>>

\* the attributes and surroundings of the client that no call changes
settings == <<api_keys, max_retries, retry_delay_429, retry_delay_503, retry_delay_500,
              environ, client, faults, responses>>

\* the state of the collaborators
collaborators == <<details_cache, caller, lookups>>

\* what the steps inside the client leave alone
config == <<settings, collaborators>>

(***************************************************************************)
(* Bounds of the model.                                                    *)
(***************************************************************************)
MaxPool == 3            \* credential pools of 1..MaxPool keys
MaxRetriesBound == 2    \* MAX_RETRIES ranges over -1..MaxRetriesBound
MaxSamples == 3         \* sample_count ranges over 1..MaxSamples
ConcurrentPool == 2     \* the size of the pool that concurrent callers share
MaxLookups == 2         \* the count of culture-detail lookups per key stops here

\* The callers of the one global client (gemini_client): two of them, so that
\* two operations can be in flight at once.
Threads == {1, 2}
MainThread == CHOOSE t \in Threads : \A u \in Threads : t <= u

Operations == {"generate_text", "generate_image", "analyze_image_with_prompt"}

(***************************************************************************)
(* Program constants.                                                      *)
(***************************************************************************)
DefaultRetryDelay429 == 2000
DefaultRetryDelay503 == 3000
DefaultRetryDelay500 == 2000
TimeoutSleepMs == 2000      \* time.sleep(2)
DefaultMaxRetries == 3      \* int(os.getenv('MAX_RETRIES', 3))

\* Values of RETRY_DELAY_429 / _503 / _500 in the environment: the defaults,
\* and a setting in which all delays differ from each other and from the
\* fixed timeout sleep.
DelayConfigs ==
    { [d429 |-> DefaultRetryDelay429, d503 |-> DefaultRetryDelay503,
       d500 |-> DefaultRetryDelay500],
      [d429 |-> 1000, d503 |-> 4000, d500 |-> 500] }

\* Values of GEMINI_API_KEY_1, _2, ... in the environment.
CredentialValue(i) == <<"AIzaA1", "AIzaB500x", "AIzaC3", "AIzaD4", "AIzaE5">>[i]

\* The value of the un-numbered GEMINI_API_KEY in the environment.
SingleCredential == "AIzaS0"

(***************************************************************************)
(* The environment and _load_api_keys.                                     *)
(***************************************************************************)
KeyVar(i) == "GEMINI_API_KEY_" \o ToString(i)
SingleKeyVar == "GEMINI_API_KEY"

\* The variables a run may find set, and the values each may have: the empty
\* string or a credential.
EnvVars == {KeyVar(i) : i \in 1..MaxPool} \cup {SingleKeyVar}
EnvValues(name) ==
    IF name = SingleKeyVar
        THEN {"", SingleCredential}
        ELSE {"", CredentialValue(CHOOSE i \in 1..MaxPool : KeyVar(i) = name)}

\* An environment is a function from the variables that are set to their
\* values; a variable outside its domain is unset (os.getenv gives None).
Environments ==
    UNION { { env \in [D -> UNION {EnvValues(n) : n \in EnvVars}] :
                \A n \in D : env[n] \in EnvValues(n) } : D \in SUBSET EnvVars }

\* the environment with GEMINI_API_KEY_1 .. _n set to credentials and nothing else
NumberedEnv(n) ==
    [name \in {KeyVar(i) : i \in 1..n} |->
        CredentialValue(CHOOSE i \in 1..n : KeyVar(i) = name)]

\* `key = os.getenv(name)` followed by `if key` (None and "" are both falsy)
HasValue(env, name) == name \in DOMAIN env /\ env[name] # ""

\* mutant of NumberedKeys: a gap does not end the scan
RECURSIVE NumberedKeys_SkipGaps(_, _)
NumberedKeys_SkipGaps(env, i) ==
    IF i > MaxPool THEN <<>>
    ELSE (IF HasValue(env, KeyVar(i)) THEN <<env[KeyVar(i)]>> ELSE <<>>)
            \o NumberedKeys_SkipGaps(env, i + 1)

\* the while loop of _load_api_keys, from index i on
RECURSIVE NumberedKeys(_, _)
NumberedKeys(env, i) ==
    IF HasValue(env, KeyVar(i))
        THEN <<env[KeyVar(i)]>> \o NumberedKeys(env, i + 1)
        ELSE <<>>

\* mutant of LoadApiKeys: the un-numbered key is added whenever it is set
LoadApiKeys_AlwaysSingle(env) ==
    NumberedKeys(env, 1)
        \o (IF HasValue(env, SingleKeyVar) THEN <<env[SingleKeyVar]>> ELSE <<>>)

\* _load_api_keys
LoadApiKeys(env) ==
    LET keys == NumberedKeys(env, 1) IN
    IF keys # <<>> THEN keys
    ELSE IF HasValue(env, SingleKeyVar) THEN <<env[SingleKeyVar]>>
    ELSE <<>>

(***************************************************************************)
(* Strings: str.lower() and the `in` substring test.                       *)
(***************************************************************************)
LowerChar(c) ==
    CASE c = "A" -> "a" [] c = "B" -> "b" [] c = "C" -> "c" [] c = "D" -> "d"
      [] c = "E" -> "e" [] c = "F" -> "f" [] c = "G" -> "g" [] c = "H" -> "h"
      [] c = "I" -> "i" [] c = "J" -> "j" [] c = "K" -> "k" [] c = "L" -> "l"
      [] c = "M" -> "m" [] c = "N" -> "n" [] c = "O" -> "o" [] c = "P" -> "p"
      [] c = "Q" -> "q" [] c = "R" -> "r" [] c = "S" -> "s" [] c = "T" -> "t"
      [] c = "U" -> "u" [] c = "V" -> "v" [] c = "W" -> "w" [] c = "X" -> "x"
      [] c = "Y" -> "y" [] c = "Z" -> "z" [] OTHER -> c

RECURSIVE Lower(_)
Lower(s) == IF s = "" THEN "" ELSE LowerChar(SubSeq(s, 1, 1)) \o Lower(Tail(s))

\* Python's `sub in s`
Contains(sub, s) ==
    \E i \in 1..(Len(s) - Len(sub) + 1) : SubSeq(s, i, i + Len(sub) - 1) = sub

\* the characters of string s, as a set
Chars(s) == {SubSeq(s, i, i) : i \in 1..Len(s)}

\* str.rstrip(chars): trailing characters that are in `chars` are removed
RECURSIVE RStrip(_, _)
RStrip(s, chars) ==
    IF s # "" /\ SubSeq(s, Len(s), Len(s)) \in Chars(chars)
        THEN RStrip(SubSeq(s, 1, Len(s) - 1), chars)
        ELSE s

RECURSIVE LStrip(_, _)
LStrip(s, chars) ==
    IF s # "" /\ SubSeq(s, 1, 1) \in Chars(chars)
        THEN LStrip(Tail(s), chars)
        ELSE s

\* the whitespace str.strip() removes (the vertical tab left out)
Whitespace == " \t\n\r\f"

\* mutant of Strip: only the left end is trimmed
Strip_LeftOnly(s) == LStrip(s, Whitespace)

\* str.strip()
Strip(s) == LStrip(RStrip(s, Whitespace), Whitespace)

\* str.rfind(c) for a character c, positions counted from 1 (0: not found)
RFind(s, c) ==
    LET at == {i \in 1..Len(s) : SubSeq(s, i, i) = c} IN
    IF at = {} THEN 0 ELSE CHOOSE i \in at : \A j \in at : j <= i

\* os.path.splitext(path)[1]: the part from the last dot on, when that dot
\* is in the last path component and a character other than a dot precedes
\* it there
SplitExt(path) ==
    LET sepIndex == RFind(path, "/")
        dotIndex == RFind(path, ".")
    IN  IF /\ dotIndex > sepIndex
           /\ \E k \in (sepIndex + 1)..(dotIndex - 1) : SubSeq(path, k, k) # "."
            THEN SubSeq(path, dotIndex, Len(path))
            ELSE ""

(***************************************************************************)
(* _get_mime_type                                                          *)
(***************************************************************************)
\* mutant of GetMimeType: the extension is not lower-cased
GetMimeType_CaseSensitive(image_path) ==
    LET ext == SplitExt(image_path) IN
    CASE ext \in {".jpg", ".jpeg"} -> "image/jpeg"
      [] ext = ".png" -> "image/png"
      [] ext = ".gif" -> "image/gif"
      [] ext = ".webp" -> "image/webp"
      [] OTHER -> "image/jpeg"

\* mutant of GetMimeType: the default is application/octet-stream
GetMimeType_OtherDefault(image_path) ==
    LET ext == Lower(SplitExt(image_path)) IN
    CASE ext \in {".jpg", ".jpeg"} -> "image/jpeg"
      [] ext = ".png" -> "image/png"
      [] ext = ".gif" -> "image/gif"
      [] ext = ".webp" -> "image/webp"
      [] OTHER -> "application/octet-stream"

GetMimeType(image_path) ==
    LET ext == Lower(SplitExt(image_path)) IN
    CASE ext \in {".jpg", ".jpeg"} -> "image/jpeg"
      [] ext = ".png" -> "image/png"
      [] ext = ".gif" -> "image/gif"
      [] ext = ".webp" -> "image/webp"
      [] OTHER -> "image/jpeg"

(***************************************************************************)
(* The transport: what requests.post / raise_for_status can raise.         *)
(***************************************************************************)
\* The URL of each endpoint as it appears in an error message (host and
\* path prefix left out). The text endpoint takes the key as a query
\* parameter (params={"key": ...}); the others take it in a header.
TextUrl(key) == "gemini-2.5-flash:generateContent?key=" \o key
ImagenUrl == "imagen-3.0-generate-002:predict"
ImageUrl == "gemini-2.0-flash:generateContent"
UploadUrl == "upload/v1beta/files"

\* requests.HTTPError as raised by response.raise_for_status()
HTTPError(status, url) ==
    CASE status = "429" -> "429 Client Error: Too Many Requests for url: " \o url
      [] status = "503" -> "503 Server Error: Service Unavailable for url: " \o url
      [] status = "500" -> "500 Server Error: Internal Server Error for url: " \o url
      [] status = "400" -> "400 Client Error: Bad Request for url: " \o url

\* The failures of one HTTP call: the status of an HTTP error response, or
\* the message of another exception (a read timeout, and the messages a
\* stubbed transport raises).
HttpStatuses == {"429", "503", "500", "400"}
OtherFailures ==
    { "Read timed out. (read timeout=30)",
      "foo",
      "Too Many Requests",
      "SERVICE UNAVAILABLE",
      "Internal Server Error",
      "429 then 503",
      "503 Gateway TIMEOUT",
      "500 after timeout" }
AllFaults == HttpStatuses \cup OtherFailures

\* Every exception message one HTTP call to `url` can end with, under the
\* failures the transport is subject to.
TransportErrors(url) ==
    { HTTPError(s, url) : s \in faults \cap HttpStatuses }
    \cup (faults \cap OtherFailures)

\* The text of the first candidate of a response, as the service sent it.
ResponseTexts == {" Hi there\n", "Hi"}

UploadFailed == "Failed to upload image to Gemini"
NoUploadUrl == "No upload URL received"
ExhaustedRetries(n) ==
    "Failed after " \o (IF n < 0 THEN "-" \o ToString(-n) ELSE ToString(n))
        \o " retry attempts"


\* result['candidates'][0]... on a response body without candidates (KeyError)
MissingCandidates == "'candidates'"

(***************************************************************************)
(* _handle_error: classification of an exception by its message.           *)
(***************************************************************************)
RetryableClasses == {"rate_limit", "service_unavailable", "internal_error", "timeout"}

\* mutant of Classify: the 503 test placed before the 429 test
Classify_503First(error) ==
    LET error_msg == Lower(error) IN
    IF Contains("503", error_msg) \/ Contains("service unavailable", error_msg)
        THEN "service_unavailable"
    ELSE IF Contains("429", error_msg) \/ Contains("too many requests", error_msg)
        THEN "rate_limit"
    ELSE IF Contains("500", error_msg) \/ Contains("internal server error", error_msg)
        THEN "internal_error"
    ELSE IF Contains("timeout", error_msg)
        THEN "timeout"
    ELSE "unclassified"

\* the if / elif chain of _handle_error, on error_msg = str(error).lower()
Classify(error) ==
    LET error_msg == Lower(error) IN
    IF Contains("429", error_msg) \/ Contains("too many requests", error_msg)
        THEN "rate_limit"
    ELSE IF Contains("503", error_msg) \/ Contains("service unavailable", error_msg)
        THEN "service_unavailable"
    ELSE IF Contains("500", error_msg) \/ Contains("internal server error", error_msg)
        THEN "internal_error"
    ELSE IF Contains("timeout", error_msg)
        THEN "timeout"
    ELSE "unclassified"

\* mutants of MaxRetriesReached: the limit test off by one, either way
MaxRetriesReached_OneEarly(retry_count, limit) == retry_count + 1 >= limit
MaxRetriesReached_OneLate(retry_count, limit) == retry_count > limit

\* `if retry_count >= max_retries: return False`
MaxRetriesReached(retry_count, limit) == retry_count >= limit

\* mutant of ShouldRetry: the final else branch retries too
ShouldRetry_AnyClass(error, retry_count, limit) == ~MaxRetriesReached(retry_count, limit)

\* the return value of _handle_error: whether the wrapper retries
ShouldRetry(error, retry_count, limit) ==
    /\ ~MaxRetriesReached(retry_count, limit)
    /\ Classify(error) \in RetryableClasses

\* mutant of SleepMs: the timeout branch sleeps the internal-error delay
SleepMs_TimeoutAs500(class) ==
    CASE class = "rate_limit" -> retry_delay_429
      [] class = "service_unavailable" -> retry_delay_503
      [] class \in {"internal_error", "timeout"} -> retry_delay_500

\* the argument of time.sleep in each retrying branch, in milliseconds
SleepMs(class) ==
    CASE class = "rate_limit" -> retry_delay_429
      [] class = "service_unavailable" -> retry_delay_503
      [] class = "internal_error" -> retry_delay_500
      [] class = "timeout" -> TimeoutSleepMs

\* mutants of NextKeyIndex: no wrap-around; the previous key; no advance
NextKeyIndex_NoWrap(i, n) == i + 1
NextKeyIndex_Previous(i, n) == (i + n - 1) % n
NextKeyIndex_Stay(i, n) == i

\* _switch_api_key: (self.current_key_index + 1) % len(self.api_keys)
NextKeyIndex(i, n) == (i + 1) % n

\* _get_current_api_key
CurrentApiKey == api_keys[current_key_index + 1]

(***************************************************************************)
(* State.                                                                  *)
(***************************************************************************)
NoResult == [kind |-> "none", value |-> ""]
Returned(v) == [kind |-> "returned", value |-> v]
Raised(m) == [kind |-> "raised", value |-> m]

\* The arguments of a public operation that the client acts on (the prompt
\* and the aspect ratio only travel in the request body).
NoArgs == [sample_count |-> 0, filename |-> "", image_path |-> ""]
ImageArgs(sample_count, filename) ==
    [NoArgs EXCEPT !.sample_count = sample_count, !.filename = filename]
AnalyzeArgs(image_path) == [NoArgs EXCEPT !.image_path = image_path]

IdleFrame ==
    [ pc |-> "idle",          \* where the caller is in the wrapper
      op |-> "none",          \* the public operation called
      args |-> NoArgs,        \* its arguments
      retry_count |-> 0,      \* the loop variable of _make_request_with_retry
      e |-> "",               \* the exception caught at line 114
      upload_e |-> "",        \* the exception caught in _upload_image_to_gemini
      file_uri |-> "",        \* file_uri of _analyze_image_with_prompt_request
      index_read |-> 0,       \* current_key_index as read by _switch_api_key
      result |-> NoResult ]   \* what the public operation returned or raised

IdleObs ==
    [ start_index |-> 0,      \* current_key_index when the operation was called
      attempts |-> 0,         \* invocations of request_func so far
      history |-> <<>>,       \* class of the error of each failed attempt, in order
      requests |-> <<>>,      \* HTTP requests of the attempt in progress
      handling |-> <<>>,      \* key switches and sleeps since the last attempt ended
      response |-> "",        \* the text of the first candidate of the last response
      predictions |-> <<>>,   \* the predictions of the last image response
      saved |-> <<>>,         \* the image files written by the last attempt
      overlapped |-> FALSE ]  \* another call was in flight during this one

\* Python values a collaborator returns, with their type
PyNone == [type |-> "NoneType", v |-> ""]
PyStr(s) == [type |-> "str", v |-> s]
PyInt(digits) == [type |-> "int", v |-> digits]
PyBool(b) == [type |-> "bool", v |-> IF b THEN "true" ELSE "false"]
PyList(items) == [type |-> "list", v |-> items]
PyDict(members) == [type |-> "dict", v |-> members]

\* The cultures collaborators are called for, and the keys
\* generate_pattern_image caches their details under (culture.lower()).
Cultures == {"yoruba", "Yoruba", "edo"}
CultureKeys == {Lower(c) : c \in Cultures}

\* {}: the cache as generate_pattern_image creates it
EmptyCache == [k \in {} |-> ""]

\* The arguments of a collaborator function.
CollaboratorArgs(culture, image_path, filename, sample_count) ==
    [culture |-> culture, image_path |-> image_path, filename |-> filename,
     sample_count |-> sample_count]

IdleCaller ==
    [ pc |-> "idle",          \* where the caller is in the collaborator function
      fn |-> "none",          \* the collaborator function called
      args |-> CollaboratorArgs("", "", "", 0),
      details |-> "",         \* details of generate_pattern_image
      outcome |-> NoResult,   \* what the last call of the client gave
      value |-> PyNone ]      \* what the collaborator function returned

\* no collaborator function has been called yet
NoCollaborators ==
    /\ details_cache = EmptyCache
    /\ caller = [t \in Threads |-> IdleCaller]
    /\ lookups = [k \in CultureKeys |-> 0]

\* the entries of obs.handling
Switched(index) == [act |-> "switch", arg |-> index]
Slept(ms) == [act |-> "sleep", arg |-> ms]

InFlight(t) == frame[t].pc \notin {"idle", "returned", "raised"}
Idle(t) == frame[t].pc = "idle"

\* the state GeminiClient() leaves when it returns a client, in environment env
Constructed(env) ==
    /\ environ = env
    /\ api_keys = LoadApiKeys(env)
    /\ api_keys # <<>>
    /\ current_key_index = 0
    /\ client = "constructed"

\* GeminiClient(): the attributes are assigned, then an empty pool makes the
\* constructor raise ValueError(NoApiKeys)
Construct ==
    /\ client = "unconstructed"
    /\ api_keys' = LoadApiKeys(environ)
    /\ current_key_index' = 0
    /\ client' = IF api_keys' = <<>> THEN "failed" ELSE "constructed"
    /\ UNCHANGED <<environ, faults, responses, max_retries, retry_delay_429,
                   retry_delay_503, retry_delay_500, frame, obs, collaborators>>

Init ==
    /\ \E n \in 1..MaxPool : Constructed(NumberedEnv(n))
    /\ faults = AllFaults
    /\ max_retries \in -1..MaxRetriesBound
    /\ \E c \in DelayConfigs :
        /\ retry_delay_429 = c.d429
        /\ retry_delay_503 = c.d503
        /\ retry_delay_500 = c.d500
    /\ responses = ResponseTexts
    /\ frame = [t \in Threads |-> IdleFrame]
    /\ obs = [t \in Threads |-> IdleObs]
    /\ NoCollaborators

(***************************************************************************)
(* The public operations: each enters _make_request_with_retry.            *)
(***************************************************************************)
\* The arguments of the calls of test_retry.py.
DefaultArgs(o) ==
    CASE o = "generate_text" -> NoArgs
      [] o = "generate_image" -> ImageArgs(1, "test_pattern.png")
      [] o = "analyze_image_with_prompt" -> AnalyzeArgs("assets/yoruba_pattern_imagen4.png")

Invoke(t, o, args) ==
    /\ client = "constructed"
    /\ Idle(t)
    /\ frame' = [frame EXCEPT ![t] = [IdleFrame EXCEPT !.pc = "loop", !.op = o,
                                                        !.args = args]]
    /\ obs' = [u \in Threads |->
                IF u = t
                    THEN [IdleObs EXCEPT !.start_index = current_key_index,
                                         !.overlapped = \E v \in Threads : InFlight(v)]
                ELSE IF InFlight(u) THEN [obs[u] EXCEPT !.overlapped = TRUE]
                ELSE obs[u]]
    /\ UNCHANGED <<settings, current_key_index>>

\* a call of a public operation by a caller that is no collaborator
Call(t, o, args) ==
    /\ Invoke(t, o, args)
    /\ UNCHANGED collaborators

\* a call of the single-threaded, synchronous use of the client: made by the
\* main thread, after its previous call has returned
SerialCall(o) ==
    /\ \A u \in Threads : Idle(u)
    /\ Call(MainThread, o, DefaultArgs(o))

\* the operation has ended: its value or exception passes to the code that
\* called it
Complete(t) ==
    /\ frame[t].pc \in {"returned", "raised"}
    /\ frame' = [frame EXCEPT ![t] = IdleFrame]
    /\ obs' = [obs EXCEPT ![t] = IdleObs]
    /\ UNCHANGED <<settings, current_key_index>>

\* mutant of Return: the end of an operation puts the index back to 0
Return_ResetIndex(t) ==
    /\ frame[t].pc \in {"returned", "raised"}
    /\ frame' = [frame EXCEPT ![t] = IdleFrame]
    /\ obs' = [obs EXCEPT ![t] = IdleObs]
    /\ current_key_index' = 0
    /\ UNCHANGED config

\* a caller that is no collaborator has taken the value or the exception
\* of its call
Return(t) ==
    /\ Complete(t)
    /\ UNCHANGED collaborators

(***************************************************************************)
(* _make_request_with_retry: for retry_count in range(max_retries + 1)     *)
(***************************************************************************)
\* mutant of LoopEnter: `while True` in place of the bounded range
LoopEnter_Unbounded(t) ==
    /\ frame[t].pc = "loop"
    /\ frame' = [frame EXCEPT ![t].pc = "request", ![t].file_uri = "",
                              ![t].upload_e = ""]
    /\ obs' = [obs EXCEPT ![t].requests = <<>>, ![t].attempts = @ + 1,
                          ![t].predictions = <<>>, ![t].saved = <<>>]
    /\ UNCHANGED <<config, current_key_index>>

\* mutant of LoopEnter: an attempt that follows one whose upload succeeded
\* goes straight to the analysis request, with the file reference it has
LoopEnter_ReusesUpload(t) ==
    /\ frame[t].pc = "loop"
    /\ frame[t].retry_count < max_retries + 1
    /\ frame' = [frame EXCEPT ![t].pc = IF frame[t].file_uri = "" THEN "request"
                                                                 ELSE "analyze",
                              ![t].upload_e = ""]
    /\ obs' = [obs EXCEPT ![t].requests = <<>>, ![t].attempts = @ + 1,
                          ![t].predictions = <<>>, ![t].saved = <<>>]
    /\ UNCHANGED <<config, current_key_index>>

\* the loop has another iteration: the attempt begins
LoopEnter(t) ==
    /\ frame[t].pc = "loop"
    /\ frame[t].retry_count < max_retries + 1
    /\ frame' = [frame EXCEPT ![t].pc = "request", ![t].file_uri = "",
                              ![t].upload_e = ""]
    /\ obs' = [obs EXCEPT ![t].requests = <<>>, ![t].attempts = @ + 1,
                          ![t].predictions = <<>>, ![t].saved = <<>>]
    /\ UNCHANGED <<config, current_key_index>>

\* the range is used up: raise Exception("Failed after ... retry attempts")
LoopExhausted(t) ==
    /\ frame[t].pc = "loop"
    /\ ~(frame[t].retry_count < max_retries + 1)
    /\ frame' = [frame EXCEPT ![t].pc = "raised",
                              ![t].result = Raised(ExhaustedRetries(max_retries))]
    /\ UNCHANGED <<config, current_key_index, obs>>

\* one HTTP request of the attempt in progress, with the credential it carries
Sent(t, endpoint, key) ==
    [obs EXCEPT ![t].requests = Append(@, [endpoint |-> endpoint, key |-> key])]

\* one HTTP request that names the MIME type of the image
SentFile(t, endpoint, key, mime_type) ==
    [obs EXCEPT ![t].requests =
        Append(@, [endpoint |-> endpoint, key |-> key, mime_type |-> mime_type])]

\* one HTTP request whose body has the file_data part (mime_type, file_uri)
SentFileData(t, endpoint, key, mime_type, file_uri) ==
    [obs EXCEPT ![t].requests =
        Append(@, [endpoint |-> endpoint, key |-> key, mime_type |-> mime_type,
                   file_uri |-> file_uri])]

(***************************************************************************)
(* _generate_text_request                                                  *)
(***************************************************************************)
GenerateTextRequest(t) ==
    /\ frame[t].pc = "request"
    /\ frame[t].op = "generate_text"
    /\ LET key == CurrentApiKey
           after == Sent(t, "text", key)
       IN  \/ \E text \in responses :
                /\ frame' = [frame EXCEPT ![t].pc = "returned",
                                          ![t].result = Returned(Strip(text))]
                /\ obs' = [after EXCEPT ![t].handling = <<>>, ![t].response = text]
           \/ \E m \in TransportErrors(TextUrl(key)) \cup {MissingCandidates} :
                /\ frame' = [frame EXCEPT ![t].pc = "handle", ![t].e = m]
                /\ obs' = [after EXCEPT ![t].history = Append(@, Classify(m)),
                                        ![t].handling = <<>>]
    /\ UNCHANGED <<config, current_key_index>>

(***************************************************************************)
(* _generate_image_request                                                 *)
(***************************************************************************)
\* An item of result["predictions"], with what becomes of it: "payload" has
\* base64 data that decodes and a file that can be written; "garbled" has
\* data base64.b64decode rejects; "unwritable" has data that decodes, but
\* open(image_path, "wb") fails; "absent" has no bytesBase64Encoded.
PredictionKinds == {"payload", "garbled", "unwritable", "absent"}

\* The responses to a request for sample_count images: at most that many
\* predictions.
ImageResponses(sample_count) ==
    UNION { [1..k -> PredictionKinds] : k \in 0..sample_count }

DecodeError == "Incorrect padding"
WriteError(image_path) == "[Errno 13] Permission denied: '" \o image_path \o "'"
IndexError == "list index out of range"

\* f"generated_image_{int(time.time())}.png"
GeneratedName == "generated_image_1700000000.png"

\* out_name of the image at position idx (from 0) of the response
OutName(filename, sample_count, idx) ==
    IF sample_count = 1
        THEN filename
        ELSE RStrip(filename, ".png") \o "_" \o ToString(idx + 1) \o ".png"

\* os.path.join(os.path.dirname(__file__), 'assets', out_name)
ImagePath(out_name) == "assets/" \o out_name

\* mutant of SaveImages: an image that cannot be decoded or written is
\* skipped
RECURSIVE SaveImages_SkipFailures(_, _, _, _, _)
SaveImages_SkipFailures(predictions, idx, sample_count, filename, image_paths) ==
    IF idx >= Len(predictions)
        THEN [image_paths |-> image_paths, error |-> ""]
    ELSE IF predictions[idx + 1] # "payload"
        THEN SaveImages_SkipFailures(predictions, idx + 1, sample_count, filename,
                                     image_paths)
    ELSE LET name == IF filename = "" THEN GeneratedName ELSE filename
             image_path == ImagePath(OutName(name, sample_count, idx))
         IN  SaveImages_SkipFailures(predictions, idx + 1, sample_count, name,
                                     Append(image_paths, image_path))

\* The for loop of _generate_image_request from position idx on: the paths
\* written, and the exception that ended the loop ("" when it ran to its
\* end).
RECURSIVE SaveImages(_, _, _, _, _)
SaveImages(predictions, idx, sample_count, filename, image_paths) ==
    IF idx >= Len(predictions)
        THEN [image_paths |-> image_paths, error |-> ""]
    ELSE IF predictions[idx + 1] = "absent"
        THEN SaveImages(predictions, idx + 1, sample_count, filename, image_paths)
    ELSE IF predictions[idx + 1] = "garbled"
        THEN [image_paths |-> image_paths, error |-> DecodeError]
    ELSE LET name == IF filename = "" THEN GeneratedName ELSE filename
             image_path == ImagePath(OutName(name, sample_count, idx))
         IN  IF predictions[idx + 1] = "unwritable"
                THEN [image_paths |-> image_paths, error |-> WriteError(image_path)]
                ELSE SaveImages(predictions, idx + 1, sample_count, name,
                                Append(image_paths, image_path))

\* What _generate_image_request does with a response: the loop, then
\* `return image_paths[0] if sample_count == 1 else image_paths`.
ImageOutcome(predictions, sample_count, filename) ==
    LET loop == SaveImages(predictions, 0, sample_count, filename, <<>>) IN
    IF loop.error # ""
        THEN [saved |-> loop.image_paths, result |-> Raised(loop.error)]
    ELSE IF sample_count # 1
        THEN [saved |-> loop.image_paths, result |-> Returned(loop.image_paths)]
    ELSE IF loop.image_paths = <<>>
        THEN [saved |-> <<>>, result |-> Raised(IndexError)]
    ELSE [saved |-> loop.image_paths, result |-> Returned(loop.image_paths[1])]

GenerateImageRequest(t) ==
    /\ frame[t].pc = "request"
    /\ frame[t].op = "generate_image"
    /\ LET key == CurrentApiKey
           after == Sent(t, "imagen", key)
           sample_count == frame[t].args.sample_count
       IN  \/ \E predictions \in ImageResponses(sample_count) :
                LET out == ImageOutcome(predictions, sample_count,
                                        frame[t].args.filename)
                    seen == [after EXCEPT ![t].handling = <<>>,
                                          ![t].predictions = predictions,
                                          ![t].saved = out.saved]
                IN  IF out.result.kind = "returned"
                        THEN /\ frame' = [frame EXCEPT ![t].pc = "returned",
                                                       ![t].result = out.result]
                             /\ obs' = seen
                        ELSE /\ frame' = [frame EXCEPT ![t].pc = "handle",
                                                       ![t].e = out.result.value]
                             /\ obs' = [seen EXCEPT ![t].history =
                                            Append(@, Classify(out.result.value))]
           \/ \E m \in TransportErrors(ImagenUrl) :
                /\ frame' = [frame EXCEPT ![t].pc = "handle", ![t].e = m]
                /\ obs' = [after EXCEPT ![t].history = Append(@, Classify(m)),
                                        ![t].handling = <<>>]
    /\ UNCHANGED <<config, current_key_index>>

(***************************************************************************)
(* _analyze_image_with_prompt_request and _upload_image_to_gemini          *)
(***************************************************************************)
\* mutant of UploadReturnsNone: `if not file_uri` is not tested
UploadReturnsNone_Unchecked(t, upload_e, after) ==
    /\ frame' = [frame EXCEPT ![t].pc = "analyze", ![t].upload_e = upload_e,
                              ![t].file_uri = ""]
    /\ obs' = after

\* mutant of UploadReturnsNone: the except clause of _upload_image_to_gemini
\* lets the exception of the upload out
UploadReturnsNone_Propagates(t, upload_e, after) ==
    LET e == IF upload_e = "" THEN UploadFailed ELSE upload_e IN
    /\ frame' = [frame EXCEPT ![t].pc = "handle", ![t].e = e,
                              ![t].upload_e = upload_e, ![t].file_uri = ""]
    /\ obs' = [after EXCEPT ![t].history = Append(@, Classify(e)),
                            ![t].handling = <<>>]

\* _upload_image_to_gemini returned None (its except clause caught
\* upload_e), so the request function raises UploadFailed
UploadReturnsNone(t, upload_e, after) ==
    /\ frame' = [frame EXCEPT ![t].pc = "handle", ![t].e = UploadFailed,
                              ![t].upload_e = upload_e, ![t].file_uri = ""]
    /\ obs' = [after EXCEPT ![t].history = Append(@, Classify(UploadFailed)),
                            ![t].handling = <<>>]

\* the upload-start request: it fails, or its response lacks the
\* X-Goog-Upload-URL header, or it yields the upload URL
UploadStart(t) ==
    /\ frame[t].pc = "request"
    /\ frame[t].op = "analyze_image_with_prompt"
    /\ LET key == CurrentApiKey
           mime_type == GetMimeType(frame[t].args.image_path)
           after == SentFile(t, "upload_start", key, mime_type)
       IN  \/ \E m \in TransportErrors(UploadUrl) \cup {NoUploadUrl} :
                UploadReturnsNone(t, m, after)
           \/ /\ frame' = [frame EXCEPT ![t].pc = "transfer"]
              /\ obs' = after
    /\ UNCHANGED <<config, current_key_index>>

\* The file reference (file.uri) the service answers an upload with: a new
\* one for every upload, here that of the n-th upload of an operation.
FileUri(n) == "files/" \o ToString(n)

\* the "upload, finalize" request: it fails, or its response has no file
\* uri, or it yields the file reference
UploadTransfer(t) ==
    /\ frame[t].pc = "transfer"
    /\ LET key == CurrentApiKey
           after == Sent(t, "upload_finalize", key)
       IN  \/ \E m \in TransportErrors(UploadUrl) : UploadReturnsNone(t, m, after)
           \/ UploadReturnsNone(t, "", after)
           \/ /\ frame' = [frame EXCEPT ![t].pc = "analyze",
                                        ![t].file_uri = FileUri(obs[t].attempts)]
              /\ obs' = after
    /\ UNCHANGED <<config, current_key_index>>

\* the content-analysis request, sent with the file reference
AnalyzeRequest(t) ==
    /\ frame[t].pc = "analyze"
    /\ LET key == CurrentApiKey
           mime_type == GetMimeType(frame[t].args.image_path)
           after == SentFileData(t, "analyze", key, mime_type, frame[t].file_uri)
       IN  \/ \E text \in responses :
                /\ frame' = [frame EXCEPT ![t].pc = "returned",
                                          ![t].result = Returned(Strip(text))]
                /\ obs' = [after EXCEPT ![t].handling = <<>>, ![t].response = text]
           \/ \E m \in TransportErrors(ImageUrl) \cup {MissingCandidates} :
                /\ frame' = [frame EXCEPT ![t].pc = "handle", ![t].e = m]
                /\ obs' = [after EXCEPT ![t].history = Append(@, Classify(m)),
                                        ![t].handling = <<>>]
    /\ UNCHANGED <<config, current_key_index>>

(***************************************************************************)
(* except Exception as e: if not self._handle_error(...): raise e          *)
(***************************************************************************)
\* _handle_error returns False: the wrapper re-raises e
HandleErrorRaise(t) ==
    /\ frame[t].pc = "handle"
    /\ ~ShouldRetry(frame[t].e, frame[t].retry_count, max_retries)
    /\ frame' = [frame EXCEPT ![t].pc = "raised", ![t].result = Raised(frame[t].e)]
    /\ UNCHANGED <<config, current_key_index, obs>>

\* mutant of HandleErrorRetry: every retrying branch switches the key
HandleErrorRetry_AlwaysSwitch(t) ==
    /\ frame[t].pc = "handle"
    /\ ShouldRetry(frame[t].e, frame[t].retry_count, max_retries)
    /\ frame' = [frame EXCEPT ![t].pc = "switch"]
    /\ UNCHANGED <<config, current_key_index, obs>>

\* _handle_error takes a retrying branch: the rate-limit branch first
\* switches the key, the others go straight to their sleep
HandleErrorRetry(t) ==
    /\ frame[t].pc = "handle"
    /\ ShouldRetry(frame[t].e, frame[t].retry_count, max_retries)
    /\ frame' = [frame EXCEPT ![t].pc =
                    IF Classify(frame[t].e) = "rate_limit" THEN "switch" ELSE "sleep"]
    /\ UNCHANGED <<config, current_key_index, obs>>

\* _switch_api_key reads self.current_key_index ...
SwitchRead(t) ==
    /\ frame[t].pc = "switch"
    /\ frame' = [frame EXCEPT ![t].pc = "switch_store",
                              ![t].index_read = current_key_index]
    /\ UNCHANGED <<config, current_key_index, obs>>

\* ... and stores (index + 1) % len(self.api_keys)
SwitchStore(t) ==
    /\ frame[t].pc = "switch_store"
    /\ current_key_index' = NextKeyIndex(frame[t].index_read, Len(api_keys))
    /\ frame' = [frame EXCEPT ![t].pc = "sleep"]
    /\ obs' = [obs EXCEPT ![t].handling = Append(@, Switched(current_key_index'))]
    /\ UNCHANGED config

\* mutant of Sleep: the retry counter is an attribute of the client, which
\* every call in flight counts with
Sleep_SharedCounter(t) ==
    /\ frame[t].pc = "sleep"
    /\ obs' = [obs EXCEPT ![t].handling = Append(@, Slept(SleepMs(Classify(frame[t].e))))]
    /\ frame' = [u \in Threads |->
                    IF u = t THEN [frame[u] EXCEPT !.pc = "loop", !.retry_count = @ + 1]
                    ELSE IF InFlight(u) THEN [frame[u] EXCEPT !.retry_count = @ + 1]
                    ELSE frame[u]]
    /\ UNCHANGED <<config, current_key_index>>

\* time.sleep(...) of the branch taken; _handle_error then returns True and
\* the loop goes to its next iteration
Sleep(t) ==
    /\ frame[t].pc = "sleep"
    /\ obs' = [obs EXCEPT ![t].handling = Append(@, Slept(SleepMs(Classify(frame[t].e))))]
    /\ frame' = [frame EXCEPT ![t].pc = "loop", ![t].retry_count = @ + 1]
    /\ UNCHANGED <<config, current_key_index>>

(***************************************************************************)
(* Strings: str.title() and str.find for one character.                    *)
(***************************************************************************)
UpperChar(c) ==
    CASE c = "a" -> "A" [] c = "b" -> "B" [] c = "c" -> "C" [] c = "d" -> "D"
      [] c = "e" -> "E" [] c = "f" -> "F" [] c = "g" -> "G" [] c = "h" -> "H"
      [] c = "i" -> "I" [] c = "j" -> "J" [] c = "k" -> "K" [] c = "l" -> "L"
      [] c = "m" -> "M" [] c = "n" -> "N" [] c = "o" -> "O" [] c = "p" -> "P"
      [] c = "q" -> "Q" [] c = "r" -> "R" [] c = "s" -> "S" [] c = "t" -> "T"
      [] c = "u" -> "U" [] c = "v" -> "V" [] c = "w" -> "W" [] c = "x" -> "X"
      [] c = "y" -> "Y" [] c = "z" -> "Z" [] OTHER -> c

\* str.title() from a position on: a letter that follows a letter is
\* lower-cased, any other letter is upper-cased
RECURSIVE TitleAfter(_, _)
TitleAfter(s, previous_is_cased) ==
    IF s = "" THEN ""
    ELSE LET c == SubSeq(s, 1, 1)
             cased == LowerChar(c) # c \/ UpperChar(c) # c
         IN  (IF previous_is_cased THEN LowerChar(c) ELSE UpperChar(c))
                \o TitleAfter(Tail(s), cased)

\* str.title()
Title(s) == TitleAfter(s, FALSE)

\* str.find(c) for a character c, positions counted from 1 (0: not found)
Find(s, c) ==
    LET at == {i \in 1..Len(s) : SubSeq(s, i, i) = c} IN
    IF at = {} THEN 0 ELSE CHOOSE i \in at : \A j \in at : i <= j

(***************************************************************************)
(* json.loads, for documents made of strings without escapes, integers,    *)
(* true, false, null, arrays and objects.                                  *)
(***************************************************************************)
JsonWhitespace == " \t\n\r"
Digits == "0123456789"

\* the character of s at position i ("" past its end)
CharAt(s, i) == IF i >= 1 /\ i <= Len(s) THEN SubSeq(s, i, i) ELSE ""

\* s has `word` at position i
StartsAt(s, i, word) ==
    /\ i + Len(word) - 1 <= Len(s)
    /\ SubSeq(s, i, i + Len(word) - 1) = word

\* the first position from i on that holds no whitespace
RECURSIVE SkipWhitespace(_, _)
SkipWhitespace(s, i) ==
    IF i <= Len(s) /\ SubSeq(s, i, i) \in Chars(JsonWhitespace)
        THEN SkipWhitespace(s, i + 1)
        ELSE i

\* the position of the quote that closes the string whose characters start
\* at j (0: there is none, or an escape or control character comes first)
RECURSIVE StringEnd(_, _)
StringEnd(s, j) ==
    IF j > Len(s) THEN 0
    ELSE LET c == SubSeq(s, j, j) IN
         IF c = "\"" THEN j
         ELSE IF c \in {"\\", "\n", "\t", "\r", "\f"} THEN 0
         ELSE StringEnd(s, j + 1)

\* the first position from j on that holds no digit
RECURSIVE DigitsEnd(_, _)
DigitsEnd(s, j) ==
    IF j <= Len(s) /\ SubSeq(s, j, j) \in Chars(Digits)
        THEN DigitsEnd(s, j + 1)
        ELSE j

\* {}: the dict without members; d[key] = val
EmptyDict == [k \in {} |-> PyNone]
WithMember(d, key, val) ==
    [k \in DOMAIN d \cup {key} |-> IF k = key THEN val ELSE d[k]]

\* the outcome of parsing one value: the value and the position after it
Parsed(val, next) == [ok |-> TRUE, val |-> val, next |-> next]
NotParsed == [ok |-> FALSE, val |-> PyNone, next |-> 0]

\* The value that starts at position i of s (after whitespace), the items
\* of an array from position k on, and the members of an object from
\* position k on.
RECURSIVE ParseValue(_, _), ParseItems(_, _, _), ParseMembers(_, _, _)
ParseValue(s, i) ==
    LET j == SkipWhitespace(s, i)
        c == CharAt(s, j)
    IN  IF c = "\""
            THEN LET e == StringEnd(s, j + 1) IN
                 IF e = 0 THEN NotParsed
                 ELSE Parsed(PyStr(SubSeq(s, j + 1, e - 1)), e + 1)
        ELSE IF c = "["
            THEN LET k == SkipWhitespace(s, j + 1) IN
                 IF CharAt(s, k) = "]" THEN Parsed(PyList(<<>>), k + 1)
                 ELSE ParseItems(s, k, <<>>)
        ELSE IF c = "{"
            THEN LET k == SkipWhitespace(s, j + 1) IN
                 IF CharAt(s, k) = "}" THEN Parsed(PyDict(EmptyDict), k + 1)
                 ELSE ParseMembers(s, k, EmptyDict)
        ELSE IF c = "0"
            THEN Parsed(PyInt("0"), j + 1)
        ELSE IF c # "" /\ c \in Chars(Digits)
            THEN LET e == DigitsEnd(s, j) IN Parsed(PyInt(SubSeq(s, j, e - 1)), e)
        ELSE IF StartsAt(s, j, "true") THEN Parsed(PyBool(TRUE), j + 4)
        ELSE IF StartsAt(s, j, "false") THEN Parsed(PyBool(FALSE), j + 5)
        ELSE IF StartsAt(s, j, "null") THEN Parsed(PyNone, j + 4)
        ELSE NotParsed

ParseItems(s, k, items) ==
    LET item == ParseValue(s, k) IN
    IF ~item.ok THEN NotParsed
    ELSE LET m == SkipWhitespace(s, item.next)
             c == CharAt(s, m)
         IN  IF c = "," THEN ParseItems(s, m + 1, Append(items, item.val))
             ELSE IF c = "]" THEN Parsed(PyList(Append(items, item.val)), m + 1)
             ELSE NotParsed

ParseMembers(s, k, members) ==
    LET j == SkipWhitespace(s, k)
        e == StringEnd(s, j + 1)
    IN  IF CharAt(s, j) # "\"" \/ e = 0 THEN NotParsed
        ELSE LET key == SubSeq(s, j + 1, e - 1)
                 colon == SkipWhitespace(s, e + 1)
             IN  IF CharAt(s, colon) # ":" THEN NotParsed
                 ELSE LET member == ParseValue(s, colon + 1) IN
                      IF ~member.ok THEN NotParsed
                      ELSE LET m == SkipWhitespace(s, member.next)
                               c == CharAt(s, m)
                               with == WithMember(members, key, member.val)
                           IN  IF c = "," THEN ParseMembers(s, m + 1, with)
                               ELSE IF c = "}" THEN Parsed(PyDict(with), m + 1)
                               ELSE NotParsed

\* json.loads(s): the value of the whole of s; not ok stands for
\* json.JSONDecodeError
JsonLoads(s) ==
    LET r == ParseValue(s, 1) IN
    IF r.ok /\ SkipWhitespace(s, r.next) = Len(s) + 1 THEN r ELSE NotParsed

(***************************************************************************)
(* AICultureGenerator: _extract_json_array, _extract_json_object and the   *)
(* fallback values.                                                        *)
(***************************************************************************)
\* re.search(open + '.*' + close, text, re.DOTALL), then json.loads of the
\* match: from the first `open` to the last `close` of the text
ExtractJson(text, open, close) ==
    LET first == Find(text, open)
        last == RFind(text, close)
    IN  IF first = 0 \/ last < first THEN PyNone
        ELSE LET r == JsonLoads(SubSeq(text, first, last)) IN
             IF r.ok THEN r.val ELSE PyNone

ExtractJsonArray(text) == ExtractJson(text, "[", "]")
ExtractJsonObject(text) == ExtractJson(text, "{", "}")

\* the truth value of a Python value
Truthy(value) ==
    CASE value.type = "NoneType" -> FALSE
      [] value.type = "list" -> value.v # <<>>
      [] value.type = "dict" -> DOMAIN value.v # {}
      [] value.type = "str" -> value.v # ""
      [] value.type = "int" -> value.v # "0"
      [] value.type = "bool" -> value.v = "true"

GetFallbackFonts(culture) ==
    PyList(<<PyStr("Nunito"), PyStr("Open Sans"), PyStr("Roboto"), PyStr("Lato")>>)

GetFallbackElements(culture) ==
    PyList(<<
        PyDict([type |-> PyStr("symbol"), name |-> PyStr("Cultural Motif"),
                description |-> PyStr("Traditional cultural symbols")]),
        PyDict([type |-> PyStr("pattern"), name |-> PyStr("Geometric"),
                description |-> PyStr("Geometric design patterns")]),
        PyDict([type |-> PyStr("color"), name |-> PyStr("Traditional"),
                description |-> PyStr("Culture-specific color palette")]) >>)

GetFallbackPatterns(culture) ==
    PyList(<<
        PyDict([name |-> PyStr("Traditional Pattern"),
                description |-> PyStr("Traditional geometric pattern"),
                style |-> PyStr("geometric"),
                usage |-> PyStr("Decorative elements")]) >>)

GetFallbackBrief(culture, style) ==
    PyDict([
        cultural_context |-> PyStr("Design inspired by " \o culture \o " culture"),
        design_principles |->
            PyStr("Respect cultural authenticity while creating modern designs"),
        color_philosophy |->
            PyStr("Use colors that reflect traditional materials and symbolism"),
        typography_approach |->
            PyStr("Choose fonts that complement cultural aesthetics"),
        pattern_usage |-> PyStr("Incorporate traditional patterns thoughtfully"),
        modern_adaptation |->
            PyStr("Adapt traditional elements to " \o style \o " style"),
        cultural_sensitivity |->
            PyStr("Ensure respectful and accurate representation") ])

(***************************************************************************)
(* The collaborators: what each makes of the outcome of its client call.   *)
(***************************************************************************)
\* the generators of AICultureGenerator that analyze the image
Generators == {"generate_culture_fonts", "generate_culture_elements",
               "generate_culture_patterns", "generate_culture_brief"}
\* the collaborator functions that make one call of the client
Collaborators == {"generate_cultural_note", "generate_culture_details"}
                    \cup Generators

\* style of generate_culture_brief
DefaultStyle == "modern"

\* the public operation a collaborator function calls
ClientOperation(fn) ==
    IF fn \in Generators THEN "analyze_image_with_prompt" ELSE "generate_text"

\* the fallback value of a generator
GetFallback(fn, culture) ==
    CASE fn = "generate_culture_fonts" -> GetFallbackFonts(culture)
      [] fn = "generate_culture_elements" -> GetFallbackElements(culture)
      [] fn = "generate_culture_patterns" -> GetFallbackPatterns(culture)
      [] fn = "generate_culture_brief" -> GetFallbackBrief(culture, DefaultStyle)

\* generate_culture_details: `details.strip() if details else ""`, and ""
\* from the except clause
GenerateCultureDetails(outcome) ==
    IF outcome.kind = "returned" /\ outcome.value # ""
        THEN Strip(outcome.value)
        ELSE ""

\* generate_cultural_note: the note, or the placeholder of the except clause
GenerateCulturalNote(culture, outcome) ==
    IF outcome.kind = "returned"
        THEN outcome.value
        ELSE "[Gemini API error: " \o outcome.value \o "] Placeholder note for "
                \o Title(culture) \o "."

\* mutant of GenerateCultureValue: what _extract_json_* gave is returned as
\* it is
GenerateCultureValue_Unchecked(fn, culture, outcome) ==
    IF outcome.kind = "returned" /\ outcome.value # ""
        THEN IF fn = "generate_culture_brief"
                THEN ExtractJsonObject(outcome.value)
                ELSE ExtractJsonArray(outcome.value)
        ELSE GetFallback(fn, culture)

\* generate_culture_fonts, _elements, _patterns, _brief: the parsed value of
\* a non-empty response when that value is truthy, the fallback otherwise
\* and from the except clause
GenerateCultureValue(fn, culture, outcome) ==
    IF outcome.kind = "returned" /\ outcome.value # ""
        THEN LET parsed == IF fn = "generate_culture_brief"
                                THEN ExtractJsonObject(outcome.value)
                                ELSE ExtractJsonArray(outcome.value)
             IN  IF Truthy(parsed) THEN parsed ELSE GetFallback(fn, culture)
        ELSE GetFallback(fn, culture)

\* generate_pattern_image: the result of generate_image (a path, or a list
\* of paths), or None from the except clause
GeneratePatternImage(sample_count, outcome) ==
    IF outcome.kind # "returned" THEN PyNone
    ELSE IF sample_count = 1 THEN PyStr(outcome.value)
    ELSE PyList([i \in 1..Len(outcome.value) |-> PyStr(outcome.value[i])])

\* what collaborator function fn returns when its call of the client ended
\* with `outcome`
CollaboratorValue(fn, args, outcome) ==
    CASE fn = "generate_cultural_note" ->
            PyStr(GenerateCulturalNote(args.culture, outcome))
      [] fn = "generate_culture_details" -> PyStr(GenerateCultureDetails(outcome))
      [] fn = "generate_pattern_image" ->
            GeneratePatternImage(args.sample_count, outcome)
      [] fn \in Generators -> GenerateCultureValue(fn, args.culture, outcome)

\* the steps of a collaborator leave the client's own state alone
ClientUntouched == UNCHANGED <<settings, current_key_index, frame, obs>>

\* a collaborator function that makes one call of the client is called, and
\* calls the client
CollaboratorCall(t, fn, args) ==
    /\ caller[t].pc = "idle"
    /\ fn \in Collaborators
    /\ Invoke(t, ClientOperation(fn),
              IF fn \in Generators THEN AnalyzeArgs(args.image_path) ELSE NoArgs)
    /\ caller' = [caller EXCEPT ![t] = [IdleCaller EXCEPT !.pc = "call", !.fn = fn,
                                                          !.args = args]]
    /\ UNCHANGED <<details_cache, lookups>>

\* mutant of InCache: `if cache.get(culture_key)`
InCache_Truthy(cache, culture_key) ==
    culture_key \in DOMAIN cache /\ cache[culture_key] # ""

\* `culture_key in cache`
InCache(cache, culture_key) == culture_key \in DOMAIN cache

\* generate_pattern_image is called: the details come from the cache, or
\* generate_culture_details is called for them
PatternImageCall(t, args) ==
    /\ caller[t].pc = "idle"
    /\ Idle(t)
    /\ LET culture_key == Lower(args.culture)
           entered == [IdleCaller EXCEPT !.fn = "generate_pattern_image",
                                         !.args = args]
       IN  IF InCache(details_cache, culture_key)
                THEN /\ caller' = [caller EXCEPT ![t] =
                            [entered EXCEPT !.pc = "image",
                                            !.details = details_cache[culture_key]]]
                     /\ ClientUntouched
                     /\ UNCHANGED <<details_cache, lookups>>
                ELSE /\ Invoke(t, "generate_text", NoArgs)
                     /\ caller' = [caller EXCEPT ![t] =
                            [entered EXCEPT !.pc = "details"]]
                     /\ lookups' = [lookups EXCEPT ![Lower(args.culture)] =
                            IF @ < MaxLookups THEN @ + 1 ELSE @]
                     /\ UNCHANGED details_cache

\* generate_culture_details has returned: cache[culture_key] = details
PatternImageDetails(t) ==
    /\ caller[t].pc = "details"
    /\ Complete(t)
    /\ LET details == GenerateCultureDetails(frame[t].result) IN
        /\ caller' = [caller EXCEPT ![t].pc = "image", ![t].details = details,
                                    ![t].outcome = frame[t].result]
        /\ details_cache' = WithMember(details_cache, Lower(caller[t].args.culture),
                                       details)
    /\ UNCHANGED lookups

\* generate_pattern_image calls generate_image, under the name it was given
\* or f"{culture.title()}_pattern_imagen4.png"
PatternImageGenerate(t) ==
    /\ caller[t].pc = "image"
    /\ LET args == caller[t].args
           filename == IF args.filename = ""
                        THEN Title(args.culture) \o "_pattern_imagen4.png"
                        ELSE args.filename
       IN  Invoke(t, "generate_image", ImageArgs(args.sample_count, filename))
    /\ caller' = [caller EXCEPT ![t].pc = "call"]
    /\ UNCHANGED <<details_cache, lookups>>

\* the call of the client has ended: the collaborator function returns
CollaboratorReturn(t) ==
    /\ caller[t].pc = "call"
    /\ Complete(t)
    /\ caller' = [caller EXCEPT ![t].pc = "done",
                                ![t].outcome = frame[t].result,
                                ![t].value = CollaboratorValue(caller[t].fn,
                                                caller[t].args, frame[t].result)]
    /\ UNCHANGED <<details_cache, lookups>>

\* the value of the collaborator function has been taken
CollaboratorDone(t) ==
    /\ caller[t].pc = "done"
    /\ caller' = [caller EXCEPT ![t] = IdleCaller]
    /\ ClientUntouched
    /\ UNCHANGED <<details_cache, lookups>>

(***************************************************************************)
(* Specifications.                                                         *)
(***************************************************************************)
Step(t) ==
    \/ LoopEnter(t)
    \/ LoopExhausted(t)
    \/ GenerateTextRequest(t)
    \/ GenerateImageRequest(t)
    \/ UploadStart(t)
    \/ UploadTransfer(t)
    \/ AnalyzeRequest(t)
    \/ HandleErrorRaise(t)
    \/ HandleErrorRetry(t)
    \/ SwitchRead(t)
    \/ SwitchStore(t)
    \/ Sleep(t)
    \/ Return(t)

\* the client used as its design has it: one call at a time
Next ==
    \/ \E o \in Operations : SerialCall(o)
    \/ \E t \in Threads : Step(t)

Spec == Init /\ [][Next]_vars

\* The file name hints callers give generate_image: that of imagegen_gemini
\* (f"{culture.title()}_pattern_imagen4.png"), that of test_retry.py, and
\* none.
ImageHints == {"Edo_pattern_imagen4.png", "test_pattern.png", ""}
ImageCalls == {ImageArgs(n, f) : n \in 1..MaxSamples, f \in ImageHints}

\* The generation of images, for every sample count and hint, by a client
\* with one credential that retries at most once or has an empty range of
\* attempts, over a transport that answers or rate-limits.
InitImages ==
    /\ Constructed(NumberedEnv(1))
    /\ faults = {"429"}
    /\ max_retries \in {-1, 1}
    /\ retry_delay_429 = DefaultRetryDelay429
    /\ retry_delay_503 = DefaultRetryDelay503
    /\ retry_delay_500 = DefaultRetryDelay500
    /\ responses = ResponseTexts
    /\ frame = [t \in Threads |-> IdleFrame]
    /\ obs = [t \in Threads |-> IdleObs]
    /\ NoCollaborators

SerialImageCall(args) ==
    /\ \A u \in Threads : Idle(u)
    /\ Call(MainThread, "generate_image", args)

NextImages ==
    \/ \E args \in ImageCalls : SerialImageCall(args)
    \/ \E t \in Threads :
        \/ LoopEnter(t)
        \/ LoopExhausted(t)
        \/ GenerateImageRequest(t)
        \/ HandleErrorRaise(t)
        \/ HandleErrorRetry(t)
        \/ SwitchRead(t)
        \/ SwitchStore(t)
        \/ Sleep(t)
        \/ Return(t)

SpecImages == InitImages /\ [][NextImages]_vars

\* The image paths callers give analyze_image_with_prompt: every extension
\* of the table in lower and upper case, one outside it, none, a dot in a
\* directory name only, and a name that is all extension.
ImagePathChoices ==
    { "a.jpg", "a.JPG", "a.jpeg", "a.Jpeg", "a.png", "b.PNG", "a.gif", "a.GIF",
      "a.webp", "a.WebP", "a.bmp", "scan", "v1.png/scan", "in/.png",
      "assets/yoruba_pattern_imagen4.png" }
AnalyzeCalls == {AnalyzeArgs(p) : p \in ImagePathChoices}

\* The analysis of images at every such path, by a client with one
\* credential that retries at most once or has an empty range of attempts,
\* over a transport that answers or rate-limits.
InitAnalyze ==
    /\ Constructed(NumberedEnv(1))
    /\ faults = {"429"}
    /\ max_retries \in {-1, 1}
    /\ retry_delay_429 = DefaultRetryDelay429
    /\ retry_delay_503 = DefaultRetryDelay503
    /\ retry_delay_500 = DefaultRetryDelay500
    /\ responses = ResponseTexts
    /\ frame = [t \in Threads |-> IdleFrame]
    /\ obs = [t \in Threads |-> IdleObs]
    /\ NoCollaborators

SerialAnalyzeCall(args) ==
    /\ \A u \in Threads : Idle(u)
    /\ Call(MainThread, "analyze_image_with_prompt", args)

NextAnalyze ==
    \/ \E args \in AnalyzeCalls : SerialAnalyzeCall(args)
    \/ \E t \in Threads :
        \/ LoopEnter(t)
        \/ LoopExhausted(t)
        \/ UploadStart(t)
        \/ UploadTransfer(t)
        \/ AnalyzeRequest(t)
        \/ HandleErrorRaise(t)
        \/ HandleErrorRetry(t)
        \/ SwitchRead(t)
        \/ SwitchStore(t)
        \/ Sleep(t)
        \/ Return(t)

SpecAnalyze == InitAnalyze /\ [][NextAnalyze]_vars

\* The construction of the client, in every environment. Before it the
\* client has no attributes: the pool and the index hold placeholders.
InitLoad ==
    /\ environ \in Environments
    /\ client = "unconstructed"
    /\ api_keys = <<>>
    /\ current_key_index = -1
    /\ faults = AllFaults
    /\ max_retries = DefaultMaxRetries
    /\ retry_delay_429 = DefaultRetryDelay429
    /\ retry_delay_503 = DefaultRetryDelay503
    /\ retry_delay_500 = DefaultRetryDelay500
    /\ responses = ResponseTexts
    /\ frame = [t \in Threads |-> IdleFrame]
    /\ obs = [t \in Threads |-> IdleObs]
    /\ NoCollaborators

SpecLoad == InitLoad /\ [][Construct]_vars

\* Callers on different threads use the one client without serialization:
\* the main thread makes any call, the other callers generate text. The
\* transport answers or rate-limits, and the client retries at most once or
\* has an empty range of attempts.
ConcurrentOperations(t) == IF t = MainThread THEN Operations ELSE {"generate_text"}

InitConcurrent ==
    /\ Constructed(NumberedEnv(ConcurrentPool))
    /\ faults = {"429"}
    /\ max_retries \in {-1, 1}
    /\ retry_delay_429 = DefaultRetryDelay429
    /\ retry_delay_503 = DefaultRetryDelay503
    /\ retry_delay_500 = DefaultRetryDelay500
    /\ responses = ResponseTexts
    /\ frame = [t \in Threads |-> IdleFrame]
    /\ obs = [t \in Threads |-> IdleObs]
    /\ NoCollaborators

NextConcurrent ==
    \E t \in Threads :
        \/ \E o \in ConcurrentOperations(t) : Call(t, o, DefaultArgs(o))
        \/ Step(t)

SpecConcurrent == InitConcurrent /\ [][NextConcurrent]_vars

\* The texts the service answers collaborators with: none, blank, prose,
\* JSON arrays and objects (bare and inside prose), and text in
\* which the brackets hold no JSON.
CollaboratorResponses ==
    { "",
      "Adire indigo, bands of motifs.\n",
      " [\"Ubuntu\", \"Lato\"]\n",
      "[]",
      "Fonts: [\"Ubuntu\"",
      "[Ubuntu, Lato]",
      "[1] or [2]",
      "{\"pattern_usage\": \"bands\"}",
      "{}",
      "Here it is:\n{\"fonts\": [\"Ubuntu\"]}\nDone." }

\* The calls of the collaborators: the generators on the image of
\* test_ai_culture.py, generate_pattern_image with and without a file name,
\* for one image and for two.
GeneratorArgs == {CollaboratorArgs(c, "assets/yoruba_pattern_imagen4.png", "", 0) :
                    c \in Cultures}
PatternImageArgs == {CollaboratorArgs(c, "", f, n) :
                        c \in Cultures, f \in {"", "test_pattern.png"}, n \in {1, 2}}

\* The collaborators on a client with one credential that retries at most
\* once, over a transport that answers, rate-limits or rejects the request.
InitCollaborators ==
    /\ Constructed(NumberedEnv(1))
    /\ faults = {"429", "400"}
    /\ max_retries \in {0, 1}
    /\ retry_delay_429 = DefaultRetryDelay429
    /\ retry_delay_503 = DefaultRetryDelay503
    /\ retry_delay_500 = DefaultRetryDelay500
    /\ responses = CollaboratorResponses
    /\ frame = [t \in Threads |-> IdleFrame]
    /\ obs = [t \in Threads |-> IdleObs]
    /\ NoCollaborators

NextCollaborators ==
    \/ \E fn \in Collaborators : \E args \in GeneratorArgs :
            CollaboratorCall(MainThread, fn, args)
    \/ \E args \in PatternImageArgs : PatternImageCall(MainThread, args)
    \/ PatternImageDetails(MainThread)
    \/ PatternImageGenerate(MainThread)
    \/ CollaboratorReturn(MainThread)
    \/ CollaboratorDone(MainThread)
    \/ LoopEnter(MainThread)
    \/ GenerateTextRequest(MainThread)
    \/ GenerateImageRequest(MainThread)
    \/ UploadStart(MainThread)
    \/ UploadTransfer(MainThread)
    \/ AnalyzeRequest(MainThread)
    \/ HandleErrorRaise(MainThread)
    \/ HandleErrorRetry(MainThread)
    \/ SwitchRead(MainThread)
    \/ SwitchStore(MainThread)
    \/ Sleep(MainThread)

\* one caller at a time uses the collaborators
SpecCollaborators == InitCollaborators /\ [][NextCollaborators]_vars

(***************************************************************************)
(* Vocabulary of the properties.                                           *)
(***************************************************************************)
Last(seq) == seq[Len(seq)]
AllAre(seq, c) == \A i \in 1..Len(seq) : seq[i] = c
Analyze == "analyze_image_with_prompt"

\* the classes of which message m carries a signal substring, tested on the
\* lower-cased message
SignalsIn(m) ==
    LET lm == Lower(m) IN
    (IF Contains("429", lm) \/ Contains("too many requests", lm)
        THEN {"rate_limit"} ELSE {})
    \cup (IF Contains("503", lm) \/ Contains("service unavailable", lm)
        THEN {"service_unavailable"} ELSE {})
    \cup (IF Contains("500", lm) \/ Contains("internal server error", lm)
        THEN {"internal_error"} ELSE {})
    \cup (IF Contains("timeout", lm) THEN {"timeout"} ELSE {})
Signal429(m) == "rate_limit" \in SignalsIn(m)
NoSignal(m) == SignalsIn(m) = {}

(***************************************************************************)
(* C1. A transient failure in the upload phase of                          *)
(* analyze_image_with_prompt is retried at the operation level: with       *)
(* max_retries >= 1, an operation whose first attempt lost its upload to   *)
(* a transient HTTP failure (429 / 503 / 500 / timeout) does not fail at   *)
(* that attempt; it goes on to another attempt.                            *)
(* Refuted by the code: the upload's exception is swallowed and the        *)
(* attempt raises UploadFailed, which _handle_error does not retry.        *)
(***************************************************************************)
C1_TransientUploadFailureRetried ==
    \A t \in Threads :
        ( /\ frame[t].op = Analyze
          /\ max_retries >= 1
          /\ obs[t].attempts = 1
          /\ frame[t].upload_e # ""
          /\ ~NoSignal(frame[t].upload_e) )
        => frame[t].pc # "raised"

(***************************************************************************)
(* C2. When every one of the max_retries + 1 attempts of an operation      *)
(* fails with an error of a retryable class, the failure the caller gets   *)
(* is ExhaustedRetries ("Failed after <max_retries> retry attempts").      *)
(* Refuted by the code: _handle_error returns False on the last attempt    *)
(* and the wrapper re-raises that attempt's error.                         *)
(***************************************************************************)
C2_ExhaustedRetriesSurfaced ==
    \A t \in Threads :
        ( /\ frame[t].pc = "raised"
          /\ Len(obs[t].history) = max_retries + 1
          /\ \A i \in 1..Len(obs[t].history) : obs[t].history[i] \in RetryableClasses )
        => frame[t].result = Raised(ExhaustedRetries(max_retries))

(***************************************************************************)
(* C3. While every attempt of an operation fails with a                    *)
(* service-unavailable error, the credential index stays what it was when  *)
(* the operation started, and the operation fails only after exactly       *)
(* max_retries + 1 invocations of the request function.                    *)
(***************************************************************************)
C3_Always503 ==
    \A t \in Threads :
        ( /\ frame[t].pc # "idle"
          /\ frame[t].pc # "returned"
          /\ AllAre(obs[t].history, "service_unavailable") )
        => /\ current_key_index = obs[t].start_index
           /\ obs[t].attempts <= max_retries + 1
           /\ frame[t].pc = "raised" =>
                /\ obs[t].attempts = max_retries + 1
                /\ Len(obs[t].history) = max_retries + 1
                /\ frame[t].result.kind = "raised"

C3_Witness ==
    \E t \in Threads :
        /\ frame[t].pc = "raised"
        /\ max_retries = 2
        /\ obs[t].history = <<"service_unavailable", "service_unavailable",
                              "service_unavailable">>
        /\ Len(api_keys) > 1

(***************************************************************************)
(* C4. If the first k attempts of generate_text fail with a rate-limit     *)
(* error and the next one succeeds, generate_text returns the result after *)
(* exactly k + 1 attempts and the credential index ends at                 *)
(* (start + k) mod pool size.                                              *)
(***************************************************************************)
C4_RateLimitedThenSuccess ==
    \A t \in Threads :
        ( /\ frame[t].op = "generate_text"
          /\ frame[t].pc = "returned"
          /\ AllAre(obs[t].history, "rate_limit") )
        => LET k == Len(obs[t].history) IN
           /\ obs[t].attempts = k + 1
           /\ current_key_index = (obs[t].start_index + k) % Len(api_keys)
           /\ frame[t].result = Returned(Strip(obs[t].response))

C4_Witness ==
    \E t \in Threads :
        /\ frame[t].op = "generate_text"
        /\ frame[t].pc = "returned"
        /\ obs[t].history = <<"rate_limit">>
        /\ max_retries = 2
        /\ Len(api_keys) = 3
        /\ obs[t].start_index = 2
        /\ current_key_index = 0

(***************************************************************************)
(* C5. An error whose message has none of the signal substrings is never   *)
(* retried: once an attempt has raised one, the operation is handling it   *)
(* or has ended with that same error, at that attempt, and no key switch   *)
(* and no sleep has followed it.                                           *)
(***************************************************************************)
C5_UnclassifiedNotRetried ==
    \A t \in Threads :
        ( /\ obs[t].history # <<>>
          /\ NoSignal(frame[t].e) )
        => /\ frame[t].pc \in {"handle", "raised"}
           /\ obs[t].handling = <<>>
           /\ obs[t].attempts = Len(obs[t].history)
           /\ frame[t].pc = "raised" => frame[t].result = Raised(frame[t].e)

C5_Witness ==
    \E t \in Threads :
        /\ frame[t].pc = "raised"
        /\ frame[t].result = Raised("foo")
        /\ obs[t].attempts = 1
        /\ max_retries = 2


\* the caller is between the end of _handle_error and the end of the attempt
\* that follows it
InAttempt(t) == frame[t].pc \in {"loop", "request", "transfer", "analyze"}
Retrying(t) == InAttempt(t) /\ frame[t].retry_count > 0

\* a step in which caller t completes _switch_api_key
RotationStep(t) == frame[t].pc = "switch_store" /\ frame'[t].pc = "sleep"

\* the delay each retryable class is to be followed by, in milliseconds
ClassDelay(class) ==
    CASE class = "rate_limit" -> retry_delay_429
      [] class = "service_unavailable" -> retry_delay_503
      [] class = "internal_error" -> retry_delay_500
      [] class = "timeout" -> 2000

IsSleep(h) == h.act = "sleep"
IsSwitch(h) == h.act = "switch"

C7_LastAttemptErrorPropagates ==
    \A t \in Threads :
        ( /\ obs[t].history # <<>>
          /\ Len(obs[t].history) = max_retries + 1 )
        => /\ frame[t].pc \in {"handle", "raised"}
           /\ obs[t].attempts = max_retries + 1
           /\ obs[t].handling = <<>>
           /\ frame[t].pc = "raised" => frame[t].result = Raised(frame[t].e)

C7_Witness ==
    \E t \in Threads :
        /\ frame[t].pc = "raised"
        /\ max_retries = 2
        /\ obs[t].history = <<"timeout", "rate_limit", "service_unavailable">>
        /\ frame[t].result = Raised(HTTPError("503", ImagenUrl))

(***************************************************************************)
(* C8. The credential index changes only when a rate-limit error is        *)
(* handled: a step changes it only if it is the key switch of a caller     *)
(* whose caught error carries a rate-limit signal; handling a              *)
(* service-unavailable, internal-error or timeout error, retrying after    *)
(* it, and a successful attempt leave it as it is.                         *)
(***************************************************************************)
C8_IndexChangesOnlyOnRateLimit ==
    /\ [][current_key_index' # current_key_index =>
            \E t \in Threads : RotationStep(t) /\ Signal429(frame[t].e)]_vars
    /\ [](\A t \in Threads :
            (Retrying(t) /\ ~Signal429(frame[t].e)) =>
                SelectSeq(obs[t].handling, IsSwitch) = <<>>)

C8_Witness ==
    \E t \in Threads :
        /\ frame[t].pc = "returned"
        /\ obs[t].history = <<"service_unavailable", "timeout">>
        /\ Len(api_keys) = 3
        /\ obs[t].start_index = 1
        /\ current_key_index = 1

(***************************************************************************)
(* C9. Between a failed attempt of a retryable class and the next attempt  *)
(* of the operation exactly one sleep occurs, of the delay of that class:  *)
(* retry_delay_429 for rate-limit, retry_delay_503 for                     *)
(* service-unavailable, retry_delay_500 for internal-error, 2000 ms for    *)
(* timeout. The next attempt starts with that sleep done, and nothing is   *)
(* slept before the first attempt, after the final attempt or after a      *)
(* success.                                                                *)
(***************************************************************************)
C9_OneSleepPerRetry ==
    \A t \in Threads :
        LET sleeps == SelectSeq(obs[t].handling, IsSleep) IN
        /\ Retrying(t) =>
            /\ Last(obs[t].history) \in RetryableClasses
            /\ sleeps = <<Slept(ClassDelay(Last(obs[t].history)))>>
        /\ ~Retrying(t) => sleeps = <<>>

C9_Witness ==
    \E t \in Threads :
        /\ frame[t].pc = "request"
        /\ frame[t].retry_count = 2
        /\ obs[t].history = <<"internal_error", "timeout">>
        /\ obs[t].handling = <<Slept(2000)>>
        /\ retry_delay_500 = 500

(***************************************************************************)
(* C10. An error is handled as the first class, in the order rate-limit,   *)
(* service-unavailable, internal-error, timeout, of which its lower-cased  *)
(* message contains a signal substring: a message with "429" and "503"     *)
(* switches the key and sleeps retry_delay_429; one with "503" and         *)
(* "timeout" sleeps retry_delay_503 and switches nothing.                  *)
(***************************************************************************)
C10_ClassPrecedence ==
    \A t \in Threads :
        Retrying(t) =>
            LET signals == SignalsIn(frame[t].e)
                done == obs[t].handling
            IN  IF "rate_limit" \in signals
                    THEN done = <<Switched(current_key_index), Slept(retry_delay_429)>>
                ELSE IF "service_unavailable" \in signals
                    THEN done = <<Slept(retry_delay_503)>>
                ELSE IF "internal_error" \in signals
                    THEN done = <<Slept(retry_delay_500)>>
                ELSE "timeout" \in signals /\ done = <<Slept(2000)>>

C10_Witness ==
    \E t \in Threads :
        /\ frame[t].pc = "request"
        /\ frame[t].e = "429 then 503"
        /\ Len(api_keys) = 2
        /\ obs[t].start_index = 0
        /\ obs[t].handling = <<Switched(1), Slept(1000)>>

\* the endpoints of the HTTP requests of the attempt of caller t, in order
Endpoints(t) == [i \in 1..Len(obs[t].requests) |-> obs[t].requests[i].endpoint]
Has(seq, x) == \E i \in 1..Len(seq) : seq[i] = x

(***************************************************************************)
(* C11. In analyze_image_with_prompt the content-analysis request of an    *)
(* attempt is sent only after the upload of that attempt gave a non-empty  *)
(* file reference (after its upload-start and its finalize request). When  *)
(* the upload-start response has no upload-URL header, the attempt fails   *)
(* with UploadFailed having sent the upload-start request only; when the   *)
(* finalize request gave no file uri, it fails with UploadFailed having    *)
(* sent no content-analysis request.                                       *)
(***************************************************************************)
C11_AnalysisOnlyAfterUpload ==
    \A t \in Threads :
        frame[t].op = Analyze =>
            LET sent == Endpoints(t)
                failed == /\ frame[t].pc \in {"handle", "raised"}
                          /\ frame[t].e = UploadFailed
                          /\ frame[t].pc = "raised" =>
                                frame[t].result = Raised(UploadFailed)
            IN  /\ Has(sent, "analyze") =>
                    /\ sent = <<"upload_start", "upload_finalize", "analyze">>
                    /\ frame[t].file_uri # ""
                /\ frame[t].upload_e = NoUploadUrl =>
                    /\ sent = <<"upload_start">>
                    /\ failed
                /\ (Has(sent, "upload_finalize") /\ frame[t].file_uri = "") =>
                    /\ sent = <<"upload_start", "upload_finalize">>
                    /\ failed

C11_Witness ==
    \E t \in Threads :
        /\ frame[t].op = Analyze
        /\ frame[t].pc = "raised"
        /\ frame[t].upload_e = NoUploadUrl
        /\ Endpoints(t) = <<"upload_start">>
        /\ frame[t].result = Raised(UploadFailed)
        /\ max_retries = 2

\* a step in which an operation of caller t starts, ends, or hands its
\* outcome to the caller
Boundary(t) ==
    /\ frame'[t].pc # frame[t].pc
    /\ \/ frame[t].pc \in {"idle", "returned", "raised"}
       \/ frame'[t].pc \in {"idle", "returned", "raised"}

(***************************************************************************)
(* C12. The rotation of the credential persists across operations: no step *)
(* in which an operation starts, returns or raises changes                 *)
(* current_key_index (it is not reset to 0 and not rolled back), and the   *)
(* first request of the first attempt of every operation, whichever of the *)
(* three it is, carries the credential at the index the client had when    *)
(* the operation was called.                                               *)
(***************************************************************************)
C12_RotationPersists ==
    /\ [][(\E t \in Threads : Boundary(t)) =>
            current_key_index' = current_key_index]_vars
    /\ [](\A t \in Threads :
            (obs[t].attempts = 1 /\ obs[t].requests # <<>>) =>
                obs[t].requests[1].key = api_keys[obs[t].start_index + 1])

C12_Witness ==
    \E t \in Threads :
        /\ frame[t].op = "generate_image"
        /\ frame[t].pc = "returned"
        /\ obs[t].attempts = 1
        /\ obs[t].start_index = 2
        /\ current_key_index = 2
        /\ obs[t].requests[1].key = CredentialValue(3)

\* the failures of the operation of caller t that _handle_error has answered
\* with a retry
Handled(t) ==
    IF frame[t].pc = "sleep"
        THEN obs[t].history
        ELSE SubSeq(obs[t].history, 1, frame[t].retry_count)

(***************************************************************************)
(* C13. The retry counter belongs to one operation: every operation        *)
(* starts with retry_count = 0, its retry_count is the number of its own   *)
(* failures retried so far and its attempts number retry_count (+ 1 once   *)
(* the attempt has begun), whatever other operations did before it or do   *)
(* at the same time on the same client; an operation whose failures are    *)
(* all retryable is given up only after max_retries + 1 attempts of its    *)
(* own.                                                                    *)
(***************************************************************************)
C13_CounterPerOperation ==
    \A t \in Threads :
        LET failures == Len(obs[t].history)
            pending == \/ frame[t].pc \in {"handle", "switch", "switch_store", "sleep"}
                       \/ frame[t].pc = "raised" /\ failures > 0
        IN  /\ frame[t].retry_count = failures - (IF pending THEN 1 ELSE 0)
            /\ obs[t].attempts =
                    frame[t].retry_count + (IF frame[t].pc \in {"idle", "loop"} THEN 0
                                            ELSE IF frame[t].pc = "raised" /\ failures = 0
                                                THEN 0 ELSE 1)
            /\ ( /\ frame[t].pc = "raised"
                 /\ failures > 0
                 /\ Last(obs[t].history) \in RetryableClasses )
                => obs[t].attempts = max_retries + 1

C13_Witness ==
    /\ max_retries = 1
    /\ \A t \in Threads :
        /\ frame[t].pc = "request"
        /\ frame[t].retry_count = 1
        /\ obs[t].attempts = 2
        /\ obs[t].overlapped

\* what is left for the operation of caller t to do: the attempts its range
\* still has, then the places of one iteration
Rank(pc) ==
    CASE pc = "loop" -> 8 [] pc = "request" -> 7 [] pc = "transfer" -> 6
      [] pc = "analyze" -> 5 [] pc = "handle" -> 4 [] pc = "switch" -> 3
      [] pc = "switch_store" -> 2 [] pc = "sleep" -> 1 [] OTHER -> 0
Measure(f) == (max_retries + 1 - f.retry_count) * 9 + Rank(f.pc)

\* the places of an operation in flight from which the wrapper or the
\* request function goes on
Places == {"loop", "request", "transfer", "analyze", "handle", "switch",
           "switch_store", "sleep"}

(***************************************************************************)
(* C14. Every public operation terminates, each HTTP call returning or     *)
(* raising: every step of an operation in flight lowers a measure that is  *)
(* never negative, whatever the outcome of its HTTP call, and leaves the   *)
(* operation at a place it goes on from or ended; the request function is  *)
(* invoked at most max_retries + 1 times, and an operation that has ended  *)
(* has returned a value or raised an exception.                            *)
(***************************************************************************)
C14_Terminates ==
    [][\A t \in Threads :
        frame'[t] # frame[t] =>
            /\ InFlight(t) => Measure(frame'[t]) < Measure(frame[t])
            /\ Measure(frame'[t]) >= 0
            /\ obs'[t].attempts <= max_retries + 1
            /\ frame'[t].pc \in Places \cup {"idle", "returned", "raised"}
            /\ frame'[t].pc = "request" => frame'[t].op \in Operations
            /\ frame'[t].pc \in {"returned", "raised"} =>
                    frame'[t].result.kind = frame'[t].pc]_vars

C14_Witness ==
    \E t \in Threads :
        /\ frame[t].pc = "raised"
        /\ max_retries = 2
        /\ obs[t].attempts = 3
        /\ obs[t].history = <<"rate_limit", "timeout", "internal_error">>

\* the rate-limit errors of the operation of caller t that _handle_error has
\* answered with a key switch
Rotations(t) == Len(SelectSeq(Handled(t), LAMBDA c : c = "rate_limit"))

(***************************************************************************)
(* C15. With calls serialized the index advances exactly once per handled  *)
(* rate-limit error: while a call that no other call overlaps is in        *)
(* flight, current_key_index is (index at the call + rate-limit errors it  *)
(* has handled) mod pool size. Without serialization that is lost: the     *)
(* witness is a state in which two callers have each handled one           *)
(* rate-limit error and the index has advanced by one.                     *)
(***************************************************************************)
C15_SerializedRotationsExact ==
    \A t \in Threads :
        (InFlight(t) /\ ~obs[t].overlapped) =>
            current_key_index = (obs[t].start_index + Rotations(t)) % Len(api_keys)

C15_LostRotation ==
    /\ \A t \in Threads :
        /\ frame[t].pc = "sleep"
        /\ obs[t].start_index = 0
        /\ Rotations(t) = 1
    /\ current_key_index = 1

(***************************************************************************)
(* C16. Construction builds the pool from the environment: the values of   *)
(* GEMINI_API_KEY_1, _2, ... in order, up to but not including the first   *)
(* index whose variable is unset or empty (numbered variables after a gap  *)
(* are ignored); the un-numbered GEMINI_API_KEY is used only when          *)
(* variable 1 is unset or empty, and then the pool has that one element.   *)
(* Construction fails if and only if the pool so built is empty; otherwise *)
(* the client starts with current_key_index = 0.                           *)
(***************************************************************************)
C16_PoolFromEnvironment ==
    client # "unconstructed" =>
        LET IsSet(name) == name \in DOMAIN environ /\ environ[name] # ""
            n == CHOOSE k \in 0..MaxPool :
                    /\ \A i \in 1..k : IsSet(KeyVar(i))
                    /\ k = MaxPool \/ ~IsSet(KeyVar(k + 1))
            expected ==
                IF n > 0 THEN [i \in 1..n |-> environ[KeyVar(i)]]
                ELSE IF IsSet(SingleKeyVar) THEN <<environ[SingleKeyVar]>>
                ELSE <<>>
        IN  /\ api_keys = expected
            /\ (client = "failed") <=> (expected = <<>>)
            /\ client = "constructed" => current_key_index = 0
            /\ IsSet(KeyVar(1)) =>
                    \A i \in 1..Len(api_keys) : api_keys[i] # SingleCredential

C16_Witness ==
    /\ client = "constructed"
    /\ DOMAIN environ = {KeyVar(1), KeyVar(3), SingleKeyVar}
    /\ environ[SingleKeyVar] = SingleCredential
    /\ environ[KeyVar(3)] = CredentialValue(3)
    /\ api_keys = <<CredentialValue(1)>>

\* the file name without its ".png"
BaseName(filename) ==
    IF Len(filename) >= 4 /\ SubSeq(filename, Len(filename) - 3, Len(filename)) = ".png"
        THEN SubSeq(filename, 1, Len(filename) - 4)
        ELSE filename

(***************************************************************************)
(* C17. generate_image returns a single path when sample_count = 1; when   *)
(* sample_count = n > 1 and the response carries n image payloads it       *)
(* returns exactly n paths, in response order, whose file names are the    *)
(* base name of the hint followed by _1, _2, ..., _n.                      *)
(* Refuted by the code: filename.rstrip('.png') strips characters, not the *)
(* suffix, so the hint "test_pattern.png" gives "test_patter_1.png" (the   *)
(* slip of C23).                                                           *)
(***************************************************************************)
C17_PathsOfHint ==
    \A t \in Threads :
        ( /\ frame[t].op = "generate_image"
          /\ frame[t].pc = "returned" )
        => LET n == frame[t].args.sample_count
               hint == frame[t].args.filename
           IN  /\ n = 1 => frame[t].result.value = obs[t].saved[1]
               /\ ( /\ n > 1
                    /\ hint # ""
                    /\ obs[t].predictions = [i \in 1..n |-> "payload"] )
                   => frame[t].result.value =
                        [i \in 1..n |->
                            "assets/" \o BaseName(hint) \o "_" \o ToString(i) \o ".png"]

\* the position of the first prediction that cannot be decoded or written
\* (0: there is none)
FirstFailure(predictions) ==
    LET bad == {i \in 1..Len(predictions) : predictions[i] \in {"garbled", "unwritable"}}
    IN  IF bad = {} THEN 0 ELSE CHOOSE i \in bad : \A j \in bad : i <= j

(***************************************************************************)
(* C18 as the spec has it. In generate_image a failure to decode or write  *)
(* one image of a response does not abort the others: every other payload  *)
(* is still saved and the paths saved are returned.                        *)
(***************************************************************************)
C18_FailureSparesOthers ==
    \A t \in Threads :
        ( /\ frame[t].op = "generate_image"
          /\ frame[t].args.sample_count > 1
          /\ FirstFailure(obs[t].predictions) > 0 )
        => /\ Len(obs[t].saved) =
                Len(SelectSeq(obs[t].predictions, LAMBDA p : p = "payload"))
           /\ frame[t].pc = "returned"
           /\ frame[t].result = Returned(obs[t].saved)

(***************************************************************************)
(* C18, amended. In generate_image a failure to decode or write one image  *)
(* of a response ends the request function with that exception: the        *)
(* images before it have been written, no later payload is decoded or      *)
(* saved, no path is returned, and the exception goes to the retry wrapper *)
(* as the error of the attempt. A prediction without image data is skipped *)
(* and aborts nothing.                                                     *)
(***************************************************************************)
C18_FailureAbortsResponse ==
    \A t \in Threads :
        frame[t].op = "generate_image" =>
            LET predictions == obs[t].predictions
                k == FirstFailure(predictions)
                payloads(m) == Len(SelectSeq(SubSeq(predictions, 1, m),
                                             LAMBDA p : p = "payload"))
            IN  /\ k > 0 =>
                    /\ Len(obs[t].saved) = payloads(k - 1)
                    /\ frame[t].pc \in {"handle", "raised"}
                    /\ frame[t].result.kind # "returned"
                    /\ predictions[k] = "garbled" => frame[t].e = DecodeError
                    /\ predictions[k] = "unwritable" =>
                            \E name \in {OutName(f, frame[t].args.sample_count, k - 1) :
                                            f \in {frame[t].args.filename, GeneratedName}} :
                                frame[t].e = WriteError(ImagePath(name))
                /\ k = 0 => Len(obs[t].saved) = payloads(Len(predictions))

C18_Witness ==
    \E t \in Threads :
        /\ frame[t].op = "generate_image"
        /\ frame[t].args = ImageArgs(3, "Edo_pattern_imagen4.png")
        /\ obs[t].predictions = <<"payload", "garbled", "payload">>
        /\ obs[t].saved = <<"assets/Edo_pattern_imagen4_1.png">>
        /\ frame[t].pc = "raised"
        /\ frame[t].result = Raised(DecodeError)
        /\ max_retries = 1

\* every character of s is whitespace
Blank(s) == \A i \in 1..Len(s) : SubSeq(s, i, i) \in Chars(Whitespace)

\* v is text without the whitespace around it: text is v between two blank
\* strings, and v neither starts nor ends with whitespace
TrimOf(v, text) ==
    /\ \E i \in 1..(Len(text) + 1) :
            /\ Blank(SubSeq(text, 1, i - 1))
            /\ SubSeq(text, i, i + Len(v) - 1) = v
            /\ Blank(SubSeq(text, i + Len(v), Len(text)))
    /\ v # "" => /\ ~Blank(SubSeq(v, 1, 1))
                 /\ ~Blank(SubSeq(v, Len(v), Len(v)))

(***************************************************************************)
(* C19. generate_text and analyze_image_with_prompt return no partial or   *)
(* placeholder value: a call that has ended either returned the whole text *)
(* of the first candidate of the response of its last attempt, with the    *)
(* whitespace around it removed, or raised an exception; a call whose      *)
(* attempts were all rejected (an invalid credential: HTTP 400) raised the *)
(* error of the last one and returned nothing.                             *)
(***************************************************************************)
C19_TextOrException ==
    \A t \in Threads :
        frame[t].op \in {"generate_text", Analyze} =>
            /\ frame[t].pc = "returned" =>
                /\ frame[t].result.kind = "returned"
                /\ TrimOf(frame[t].result.value, obs[t].response)
                /\ obs[t].attempts = Len(obs[t].history) + 1
            /\ frame[t].pc = "raised" =>
                /\ frame[t].result.kind = "raised"
                /\ frame[t].result.value # ""
                /\ obs[t].attempts = Len(obs[t].history)
                /\ obs[t].attempts > 0 => frame[t].result.value = frame[t].e
            /\ frame[t].result.kind # "none" => frame[t].pc \in {"returned", "raised"}

C19_Witness ==
    \E t \in Threads :
        /\ frame[t].op = "generate_text"
        /\ frame[t].pc = "raised"
        /\ max_retries = 2
        /\ obs[t].history = <<"timeout", "unclassified">>
        /\ frame[t].result = Raised(HTTPError("400", TextUrl(CredentialValue(1))))

\* the last component of a path, lower-cased
FileName(path) == Lower(SubSeq(path, RFind(path, "/") + 1, Len(path)))

\* the file name ends with extension ext, after a stem that is not made of
\* dots only
HasExtension(name, ext) ==
    /\ Len(name) > Len(ext)
    /\ SubSeq(name, Len(name) - Len(ext) + 1, Len(name)) = ext
    /\ \E i \in 1..(Len(name) - Len(ext)) : SubSeq(name, i, i) # "."

(***************************************************************************)
(* C20. The MIME type of an image is a function of the extension of its    *)
(* file name only, whatever its case: .jpg and .jpeg give image/jpeg, .png *)
(* image/png, .gif image/gif, .webp image/webp, every other extension and  *)
(* no extension image/jpeg. The upload-start header and the                *)
(* content-analysis request of one attempt carry that same type.           *)
(***************************************************************************)
C20_MimeTypeOfExtension ==
    \A t \in Threads :
        frame[t].op = Analyze =>
            LET name == FileName(frame[t].args.image_path)
                expected ==
                    IF HasExtension(name, ".png") THEN "image/png"
                    ELSE IF HasExtension(name, ".gif") THEN "image/gif"
                    ELSE IF HasExtension(name, ".webp") THEN "image/webp"
                    ELSE "image/jpeg"
                sent == obs[t].requests
            IN  /\ \A i \in 1..Len(sent) :
                    sent[i].endpoint \in {"upload_start", "analyze"} =>
                        sent[i].mime_type = expected
                /\ Len(sent) = 3 => sent[1].mime_type = sent[3].mime_type

C20_Witness ==
    \E t \in Threads :
        /\ frame[t].op = Analyze
        /\ frame[t].pc = "returned"
        /\ frame[t].args.image_path = "b.PNG"
        /\ Endpoints(t) = <<"upload_start", "upload_finalize", "analyze">>
        /\ obs[t].requests[1].mime_type = "image/png"
        /\ obs[t].requests[3].mime_type = "image/png"

\* the attempt of caller t has failed inside _upload_image_to_gemini: a
\* request of the upload raised, or the upload gave no upload URL or no
\* file uri
UploadFailure(t) ==
    /\ frame[t].op = Analyze
    /\ \/ frame[t].upload_e # ""
       \/ Has(Endpoints(t), "upload_finalize") /\ frame[t].file_uri = ""

(***************************************************************************)
(* C21. Any failure inside the upload of analyze_image_with_prompt, an     *)
(* HTTP 429, 503, 500 or a timeout of the upload-start or the transfer     *)
(* request included, comes out of the attempt as UploadFailed and is       *)
(* handled as an unclassified error: no analysis request is sent, the      *)
(* credential is not rotated, nothing sleeps, no further attempt follows,  *)
(* and what the caller gets is UploadFailed, not the error of the HTTP     *)
(* request.                                                                *)
(***************************************************************************)
C21_UploadFailureUnclassified ==
    \A t \in Threads :
        UploadFailure(t) =>
            /\ frame[t].e = UploadFailed
            /\ Last(obs[t].history) \notin RetryableClasses
            /\ frame[t].pc \in {"handle", "raised"}
            /\ obs[t].handling = <<>>
            /\ ~Has(Endpoints(t), "analyze")
            /\ frame[t].pc = "raised" =>
                /\ frame[t].result = Raised(UploadFailed)
                /\ frame[t].result # Raised(frame[t].upload_e)

C21_Witness ==
    \E t \in Threads :
        /\ frame[t].op = Analyze
        /\ frame[t].pc = "raised"
        /\ frame[t].upload_e = HTTPError("429", UploadUrl)
        /\ Endpoints(t) = <<"upload_start", "upload_finalize">>
        /\ frame[t].result = Raised(UploadFailed)
        /\ obs[t].attempts = 1
        /\ max_retries = 2
        /\ Len(api_keys) = 3
        /\ current_key_index = obs[t].start_index

(***************************************************************************)
(* C23. For sample_count > 1 and a hint of the form S.png, the image at    *)
(* position i of the response is saved under the name S_i.png: the base of *)
(* the indexed name is the hint without its ".png", whatever the stem S    *)
(* ends with.                                                              *)
(* Refuted by the code: filename.rstrip('.png') removes every trailing     *)
(* character that is one of '.', 'p', 'n', 'g', so the stem "test_pattern" *)
(* loses its final 'n' and the files are test_patter_1.png, ...            *)
(***************************************************************************)
C23_IndexSuffixOnStem ==
    \A t \in Threads :
        ( /\ frame[t].op = "generate_image"
          /\ frame[t].args.sample_count > 1
          /\ HasExtension(frame[t].args.filename, ".png") )
        => LET stem == BaseName(frame[t].args.filename)
               positions == {i \in 1..Len(obs[t].predictions) :
                                obs[t].predictions[i] \in {"payload", "unwritable"}}
           IN  \A k \in 1..Len(obs[t].saved) :
                    \E i \in positions :
                        obs[t].saved[k] = "assets/" \o stem \o "_" \o ToString(i) \o ".png"

(***************************************************************************)
(* C24. Each attempt of analyze_image_with_prompt performs its own upload: *)
(* an attempt begins without a file reference, its analysis request is     *)
(* preceded by its own upload-start and transfer requests, and the         *)
(* reference that request carries is the one the transfer of the same      *)
(* attempt returned, so the retry that follows a failed analysis request   *)
(* uploads again and uses the new reference; no call starts with a         *)
(* reference either.                                                       *)
(***************************************************************************)
C24_UploadPerAttempt ==
    \A t \in Threads :
        /\ frame[t].pc \in {"idle", "request", "transfer"} => frame[t].file_uri = ""
        /\ ( /\ frame[t].op = Analyze
             /\ Has(Endpoints(t), "analyze") )
           => /\ Endpoints(t) = <<"upload_start", "upload_finalize", "analyze">>
              /\ obs[t].requests[3].file_uri = FileUri(obs[t].attempts)
              /\ \A k \in 1..(obs[t].attempts - 1) :
                    obs[t].requests[3].file_uri # FileUri(k)

C24_Witness ==
    \E t \in Threads :
        /\ frame[t].op = Analyze
        /\ frame[t].pc = "returned"
        /\ obs[t].attempts = 2
        /\ obs[t].history = <<"service_unavailable">>
        /\ Endpoints(t) = <<"upload_start", "upload_finalize", "analyze">>
        /\ obs[t].requests[3].file_uri = FileUri(2)

\* the credential after `key` in pool order, wrapping around
NextInPool(key) ==
    LET i == CHOOSE j \in 1..Len(api_keys) : api_keys[j] = key
    IN  api_keys[(i % Len(api_keys)) + 1]

\* the credential of attempt k of the operation of caller t, by the index at
\* the call and the rate-limit errors of the attempts before k
AttemptKey(t, k) ==
    LET before == SubSeq(obs[t].history, 1, k - 1)
        rotated == Len(SelectSeq(before, LAMBDA c : c = "rate_limit"))
    IN  api_keys[((obs[t].start_index + rotated) % Len(api_keys)) + 1]

(***************************************************************************)
(* C25. In a serialized execution the retry that follows a rate-limit      *)
(* error is sent with the next credential in pool order, wrapping around:  *)
(* when the handling of a rate-limit error is over, the current credential *)
(* is the successor of the one the failed request carried, and every       *)
(* request of attempt k carries the credential that the rate-limit errors  *)
(* before k lead to. So an operation sends no request with a credential    *)
(* that returned a rate-limit error in it before every other credential of *)
(* the pool has been used by it since, and with a pool of one the retry    *)
(* has the same credential.                                                *)
(***************************************************************************)
C25_RetryWithNextCredential ==
    \A t \in Threads :
        frame[t].pc # "idle" =>
            LET n == obs[t].attempts IN
            /\ \A i \in 1..Len(obs[t].requests) :
                    obs[t].requests[i].key = AttemptKey(t, n)
            /\ ( /\ frame[t].pc = "loop"
                 /\ frame[t].retry_count >= 1
                 /\ Last(obs[t].history) = "rate_limit" )
               => /\ CurrentApiKey = NextInPool(Last(obs[t].requests).key)
                  /\ Len(api_keys) = 1 => CurrentApiKey = Last(obs[t].requests).key
            /\ \A i \in 1..n : \A j \in (i + 1)..n :
                    ( /\ obs[t].history[i] = "rate_limit"
                      /\ AttemptKey(t, j) = AttemptKey(t, i) )
                    => \A c \in 1..Len(api_keys) :
                            api_keys[c] # AttemptKey(t, i) =>
                                \E k \in (i + 1)..(j - 1) : AttemptKey(t, k) = api_keys[c]

C25_Witness ==
    \E t \in Threads :
        /\ frame[t].op = "generate_text"
        /\ frame[t].pc = "returned"
        /\ Len(api_keys) = 2
        /\ obs[t].start_index = 1
        /\ obs[t].history = <<"rate_limit", "rate_limit">>
        /\ obs[t].attempts = 3
        /\ obs[t].requests = <<[endpoint |-> "text", key |-> api_keys[2]]>>
        /\ AttemptKey(t, 2) = api_keys[1]

(***************************************************************************)
(* C26. Over a transport that answers every attempt with a rate-limit      *)
(* error, an operation rotates the credential exactly max_retries times,   *)
(* not max_retries + 1: the failure of the last attempt is followed by no  *)
(* switch and no sleep, and the operation ends with the index at           *)
(* (index at the call + max_retries) mod pool size. With max_retries = 0   *)
(* a rate-limit error causes no rotation at all.                           *)
(***************************************************************************)
C26_RotationsOfAlways429 ==
    \A t \in Threads :
        ( /\ frame[t].pc = "raised"
          /\ obs[t].history # <<>>
          /\ AllAre(obs[t].history, "rate_limit") )
        => /\ Len(obs[t].history) = max_retries + 1
           /\ Rotations(t) = max_retries
           /\ obs[t].handling = <<>>
           /\ current_key_index =
                (obs[t].start_index + max_retries) % Len(api_keys)
           /\ max_retries = 0 => current_key_index = obs[t].start_index

C26_Witness ==
    \E t \in Threads :
        /\ frame[t].pc = "raised"
        /\ obs[t].history = <<"rate_limit", "rate_limit", "rate_limit">>
        /\ max_retries = 2
        /\ Len(api_keys) = 3
        /\ obs[t].start_index = 2
        /\ current_key_index = 1
        /\ obs[t].handling = <<>>

(***************************************************************************)
(* C27. Every attempt of analyze_image_with_prompt sends its upload-start, *)
(* its transfer and its content-analysis request with one and the same     *)
(* credential, also while other operations on the same client rotate the   *)
(* credential.                                                             *)
(* Refuted by the code: each of the three requests reads                   *)
(* _get_current_api_key() anew, so a rotation by another caller between    *)
(* two of them splits the attempt over two credentials.                    *)
(***************************************************************************)
C27_OneCredentialPerAttempt ==
    \A t \in Threads :
        frame[t].op = Analyze =>
            \A i, j \in 1..Len(obs[t].requests) :
                obs[t].requests[i].key = obs[t].requests[j].key

\* m is the message of an HTTP failure other than 429, 503 and 500
ClientErrorMessage(m) ==
    /\ Len(m) >= 16
    /\ SubSeq(m, 1, 16) = "400 Client Error"

(***************************************************************************)
(* C28. An HTTP failure that is not a 429, 503 or 500 response and not a   *)
(* timeout (a 400 for an invalid credential) is never retried and never    *)
(* rotates the credential, whatever the message, messages that embed the   *)
(* request URL with its credential query parameter included: once an       *)
(* attempt has raised one, the operation is handling it or has ended, and  *)
(* no key switch and no sleep has followed it.                             *)
(* Refuted by the code: _handle_error searches the whole message, and the  *)
(* message of a failed generate_text request ends with the URL and         *)
(* ?key=<credential>, so a credential that contains "500" makes a 400      *)
(* response an internal-server error.                                      *)
(***************************************************************************)
C28_ClientErrorNotRetried ==
    \A t \in Threads :
        ( /\ obs[t].history # <<>>
          /\ ClientErrorMessage(frame[t].e) )
        => /\ frame[t].pc \in {"handle", "raised"}
           /\ obs[t].handling = <<>>
           /\ obs[t].attempts = Len(obs[t].history)

\* no part of `text` that starts with `open` and ends with `close` is a JSON
\* document
NoJson(text, open, close) ==
    \A i \in 1..Len(text) : \A j \in i..Len(text) :
        (SubSeq(text, i, i) = open /\ SubSeq(text, j, j) = close)
            => ~JsonLoads(SubSeq(text, i, j)).ok

\* two Python values are of the same type and equal
SameValue(a, b) == a.type = b.type /\ a.v = b.v

(***************************************************************************)
(* C22. The collaborators never raise on a failure of the client and       *)
(* return their fallback instead: whenever the call of the client raised,  *)
(* generate_cultural_note has returned a placeholder string,               *)
(* generate_pattern_image None and generate_culture_details the empty      *)
(* string; generate_culture_fonts, _elements, _patterns and _brief have    *)
(* returned their fixed fallback value whenever the call raised, gave an   *)
(* empty response, or gave text from which no JSON array (no JSON object,  *)
(* for the brief) can be parsed. Every call of a collaborator ends with a  *)
(* value.                                                                  *)
(***************************************************************************)
C22_FallbackOnClientFailure ==
    \A t \in Threads :
        caller[t].pc = "done" =>
            LET fn == caller[t].fn
                culture == caller[t].args.culture
                outcome == caller[t].outcome
                value == caller[t].value
                raised == outcome.kind = "raised"
            IN  /\ value.type \in {"str", "list", "dict", "NoneType"}
                /\ (fn = "generate_cultural_note" /\ raised) =>
                        /\ value.type = "str"
                        /\ Contains("Placeholder note for " \o Title(culture), value.v)
                /\ (fn = "generate_pattern_image" /\ raised) => SameValue(value, PyNone)
                /\ (fn = "generate_culture_details" /\ raised) =>
                        SameValue(value, PyStr(""))
                /\ fn \in Generators =>
                        LET brief == fn = "generate_culture_brief"
                            unparsed ==
                                IF brief THEN NoJson(outcome.value, "{", "}")
                                         ELSE NoJson(outcome.value, "[", "]")
                            fallback ==
                                CASE fn = "generate_culture_fonts" ->
                                        GetFallbackFonts(culture)
                                  [] fn = "generate_culture_elements" ->
                                        GetFallbackElements(culture)
                                  [] fn = "generate_culture_patterns" ->
                                        GetFallbackPatterns(culture)
                                  [] brief -> GetFallbackBrief(culture, "modern")
                        IN  (raised \/ outcome.value = "" \/ unparsed)
                                => SameValue(value, fallback)

C22_Witness ==
    \E t \in Threads :
        /\ caller[t].pc = "done"
        /\ caller[t].fn = "generate_culture_fonts"
        /\ caller[t].outcome = Returned("[Ubuntu, Lato]")
        /\ caller[t].value.type = "list"
        /\ caller[t].value.v = <<PyStr("Nunito"), PyStr("Open Sans"), PyStr("Roboto"),
                                 PyStr("Lato")>>

(***************************************************************************)
(* C29. In a serialized execution generate_pattern_image asks the client   *)
(* for the details of a culture at most once per culture name, compared    *)
(* without regard to case, for the lifetime of the process: the first      *)
(* result is in the cache from then on and every later call for that       *)
(* culture uses it, also when the first request failed and gave the empty  *)
(* string.                                                                 *)
(***************************************************************************)
C29_DetailsRequestedOnce ==
    /\ \A k \in CultureKeys :
        /\ lookups[k] <= 1
        /\ k \in DOMAIN details_cache => lookups[k] = 1
    /\ \A t \in Threads :
        ( /\ caller[t].fn = "generate_pattern_image"
          /\ caller[t].pc \in {"image", "call", "done"} )
        => LET k == Lower(caller[t].args.culture) IN
           /\ k \in DOMAIN details_cache
           /\ caller[t].details = details_cache[k]

C29_Witness ==
    \E t \in Threads :
        /\ caller[t].fn = "generate_pattern_image"
        /\ caller[t].pc = "image"
        /\ caller[t].outcome = NoResult
        /\ caller[t].args.culture = "Yoruba"
        /\ lookups["yoruba"] = 1
        /\ details_cache["yoruba"] = ""
        /\ caller[t].details = ""

====
